---- MODULE Spec2Model ----
(***************************************************************************)
(* Document-analysis orchestration pipeline of the Policy Reviewer API.    *)
(*                                                                         *)
(* The module holds these machines over one set of variables:             *)
(*   Spec          the parallel analysis orchestrator and the shared       *)
(*                 worker pool (analyze_large_document_fast,               *)
(*                 analyze_chunks_parallel)                                *)
(*   SpecGateway   the gateway call direct_api_call_optimized on its own   *)
(*   SpecStore     the prompt_improvements table under concurrent analyses *)
(*   SpecFair      SpecStore's analyses repeated forever, with fairness    *)
(*   SpecRag       the retrieval index rag_pipeline under analyze requests *)
(*                 and queries                                             *)
(*   SpecChunker   smart_chunk_text applied to a text                      *)
(*   SpecCycle     the feedback cycle run_periodic_improvements            *)
(*   SpecCycleFair the scheduler run_scheduled_improvements running        *)
(*                 forever, with fairness                                  *)
(*   SpecSubmit    the feedback endpoint submit_feedback                   *)
(*   SpecChat      chat_with_documents behind cleanup_middleware, over an  *)
(*                 ingested corpus                                         *)
(*   SpecBatch     the batch endpoint analyze_policy_files                 *)
(* Positions are 0-based as in the code; sequences are 1-based, so the     *)
(* task of position i is tasks[i+1].                                       *)
(***************************************************************************)
EXTENDS Integers, Sequences, FiniteSets, TLC

VARIABLES
    \* ---- orchestrator and worker pool
    pc,            \* position of the analysis coroutine
    api_key,       \* the request's API key
    n_chunks,      \* len(chunks) returned by smart_chunk_text
    tasks,         \* the list `tasks` of analyze_chunks_parallel: one future per position
    pool_queue,    \* ThreadPoolExecutor work queue (FIFO)
    pool_running,  \* work items being executed by worker threads
    batch_i,       \* loop variable i of the gather loop
    all_results,   \* the list all_results
    aux_future,    \* future of the single-document call or of the synthesis call
    report,        \* value returned by analyze_large_document_fast
    others,        \* number of pool calls submitted by other handlers (chat)
    \* ---- gateway call
    gw,            \* one call of direct_api_call_optimized, attempt by attempt
    \* ---- improvement store
    db_pool,              \* TRUE when init_db created the connection pool
    prompt_improvements,  \* the table, in order of id (SERIAL)
    req,                  \* per request: position in analyze_with_feedback_improvements
    usage_updates,        \* number of UPDATE statements executed so far
    \* ---- retrieval index and the handlers around it
    sklearn_installed,    \* TRUE when the sklearn imports succeed in this deployment
    DEFAULT_API_KEY,      \* os.environ.get("GEMINI_API_KEY", "")
    sklearn_loaded,       \* rag_pipeline._sklearn_loaded
    is_initialized,       \* rag_pipeline.is_initialized
    vectorizer,           \* rag_pipeline.vectorizer
    document_vectors,     \* rag_pipeline.document_vectors
    chunks,               \* rag_pipeline.chunks
    chunk_metadata,       \* rag_pipeline.chunk_metadata
    rag_result,           \* what retrieve_relevant_chunks returns to its caller, and from what
    document_cache,       \* keys of the global document_cache
    documents,            \* number of document ids generated (uuid4: never repeated)
    http,                 \* the last outcome of analyze_policy_text
    \* ---- document chunker
    chunker,              \* one call of smart_chunk_text: the text and what it returned
    \* ---- feedback cycle
    improvement_engine,   \* TRUE when initialize_improvement_engine created the engine
    scheduler,            \* the task run_scheduled_improvements and its current cycle
    \* ---- feedback submission
    feedback,             \* ids of the committed rows of table feedback
    feedback_seq,         \* last value of the SERIAL id of table feedback
    submit,               \* one call of submit_feedback, step by step
    \* ---- chat
    chat_history_cache,   \* the global chat_history_cache: session id -> turns
    chat_history,         \* session ids with a row in table chat_history
    sessions,             \* session ids issued by generate_session_id
    chat,                 \* one call of chat_with_documents, step by step
    \* ---- batch analysis
    batch                 \* one call of analyze_policy_files, step by step

orch_vars == <<pc, api_key, n_chunks, tasks, pool_queue, pool_running, batch_i,
               all_results, aux_future, report, others>>
gw_vars == <<gw>>
store_vars == <<db_pool, prompt_improvements, req, usage_updates>>
rag_vars == <<sklearn_installed, DEFAULT_API_KEY, sklearn_loaded, is_initialized,
              vectorizer, document_vectors, chunks, chunk_metadata,
              rag_result,
              document_cache, documents, http>>
chunker_vars == <<chunker>>
cycle_vars == <<improvement_engine, scheduler>>
ext_vars == <<rag_vars, chunker_vars, cycle_vars>>
submit_vars == <<feedback, feedback_seq, submit>>
chat_vars == <<chat_history_cache, chat_history, sessions, chat>>
batch_vars == <<batch>>
late_vars == <<submit_vars, chat_vars, batch_vars>>
vars == <<orch_vars, gw_vars, store_vars, ext_vars, late_vars>>

(***************************************************************************)
(* Bounds of the model.                                                    *)
(***************************************************************************)
MaxChunks == 5       \* largest chunk count analysed
MaxOthers == 1       \* pool calls of other handlers during one analysis
MaxRetriesArg == 3   \* largest max_retries argument tried on the gateway
MaxRequests == 2     \* analysis requests in flight at once
MaxRows == 2         \* rows of prompt_improvements
MaxUpdates == 3      \* usage-count UPDATE statements executed
MaxDocs == 2         \* analyze requests that reach the retrieval index
MaxRagChunks == 2    \* retrieval chunks cut from one document
MaxCorpus == 3       \* chunks held by the retrieval index
MaxScore == 3        \* largest similarity, in tenths
MaxK == 3            \* largest k asked of a query
MaxPieces == 3       \* paragraphs ('\n\n'-separated pieces) of a text
MaxFrequency == 14   \* largest total frequency of a feedback bucket
MaxFeedback == 3     \* feedback records inserted
MaxSessions == 1     \* chat sessions
MaxContext == 1      \* turns in a request's conversation_context
MaxFiles == 2        \* uploaded files, and URLs, of a batch request

(***************************************************************************)
(* Program constants.                                                      *)
(***************************************************************************)
\* Mutant of max_workers: a pool with a worker for every submitted call.
max_workers_unbounded == MaxChunks + MaxOthers + 1

max_workers == 1          \* ThreadPoolExecutor(max_workers=1)
default_max_retries == 2  \* direct_api_call_optimized(..., max_retries=2)
batch_size == 3           \* batch_size = 3
small_chunk_count == 3    \* if len(chunks) <= 3

(***************************************************************************)
(* API gateway client.                                                     *)
(*                                                                         *)
(* A response is what one session.post produced: a status and a body       *)
(* shape, or a transport error (status 0).  `text` is the first            *)
(* candidate's text when the body carries one.                             *)
(***************************************************************************)
Response(status, body, text) == [status |-> status, body |-> body, text |-> text]

\* The responses the endpoint can give to a prompt whose candidate text is t.
ResponsesFor(t) ==
    { Response(200, "candidates", t),       \* 200 with candidates[0] text
      Response(200, "no_candidates", t),    \* 200 without 'candidates'
      Response(200, "malformed", t),        \* 200, json()/indexing raises
      Response(500, "error", t),            \* non-200 status
      Response(0, "transport_error", t) }   \* session.post raises

\* What a call hands back: a returned string (candidate text or sentinel) or
\* a raised exception.  val is <<what, number>>.
Returned(kind, what, num, attempts) ==
    [kind |-> kind, val |-> <<what, num>>, attempts |-> attempts]

Raises(resp) == resp.body \in {"malformed", "transport_error"}

IsSuccess(resp) == resp.status = 200 /\ resp.body = "candidates"

\* range(max_retries + 1): the number of loop iterations.
attempts_allowed(max_retries) == max_retries + 1

\* Mutant of attempt_step: the loop body without its try/except, so that a
\* raising post or a malformed envelope escapes the call.
attempt_step_unguarded(attempt, max_retries, resp) ==
    IF Raises(resp)
    THEN [done |-> TRUE, result |-> Returned("exception", "RequestException", 0, attempt + 1)]
    ELSE IF IsSuccess(resp)
         THEN [done |-> TRUE,
               result |-> Returned("text", "candidate", resp.text, attempt + 1)]
         ELSE IF attempt < max_retries
              THEN [done |-> FALSE,
                    result |-> Returned("none", "continue", 0, attempt + 1)]
              ELSE [done |-> TRUE,
                    result |-> Returned("sentinel", "API error", resp.status, attempt + 1)]

\* The body of `for attempt in range(max_retries + 1)` for one attempt whose
\* post yields resp: either the call returns (done) or the loop continues.
attempt_step(attempt, max_retries, resp) ==
    IF ~Raises(resp) /\ IsSuccess(resp)
    THEN [done |-> TRUE, result |-> Returned("text", "candidate", resp.text, attempt + 1)]
    ELSE IF attempt < max_retries
         THEN [done |-> FALSE, result |-> Returned("none", "continue", 0, attempt + 1)]
         ELSE IF Raises(resp)
              THEN [done |-> TRUE,
                    result |-> Returned("sentinel", "API request failed", 0, attempt + 1)]
              ELSE [done |-> TRUE,
                    result |-> Returned("sentinel", "API error", resp.status, attempt + 1)]

\* The statement after the loop.
after_all_retries(attempt) ==
    Returned("sentinel", "API request failed after all retries", 0, attempt)

\* The whole loop over a stream of responses; responses[attempt+1] is what
\* the post of that attempt yields.
RECURSIVE retry_loop(_, _, _)
retry_loop(attempt, max_retries, responses) ==
    IF attempt >= attempts_allowed(max_retries)
    THEN after_all_retries(attempt)
    ELSE LET step == attempt_step(attempt, max_retries, responses[attempt + 1]) IN
         IF step.done THEN step.result
         ELSE retry_loop(attempt + 1, max_retries, responses)

direct_api_call_optimized(key, max_retries, responses) ==
    IF key = ""
    THEN Returned("exception", "ValueError", 0, 0)
    ELSE retry_loop(0, max_retries, responses)

IsException(r) == r.kind = "exception"

\* The result stored in a future: the call's outcome without the attempt
\* count.  src records the position of the chunk the call was made for (-1
\* for other calls); the program's strings do not carry it.
Outcome(r, src) == [kind |-> r.kind, val |-> r.val, src |-> src]

(***************************************************************************)
(* The gateway call, one loop iteration per step.                          *)
(***************************************************************************)
ApiKeys == {"", "key"}

GwIdle ==
    [pc |-> "idle", api_key |-> "", max_retries |-> 0, attempt |-> 0,
     history |-> <<>>, result |-> Returned("none", "none", 0, 0)]

\* Entry of direct_api_call_optimized up to the loop head.
gw_call(key, max_retries) ==
    /\ gw.pc = "idle"
    /\ gw' = IF key = ""
             THEN [gw EXCEPT !.pc = "raised", !.api_key = key,
                             !.max_retries = max_retries,
                             !.result = Returned("exception", "ValueError", 0, 0)]
             ELSE IF attempts_allowed(max_retries) <= 0
                  THEN [gw EXCEPT !.pc = "returned", !.api_key = key,
                                  !.max_retries = max_retries,
                                  !.result = after_all_retries(0)]
                  ELSE [gw EXCEPT !.pc = "loop", !.api_key = key,
                                  !.max_retries = max_retries]
    /\ UNCHANGED <<orch_vars, store_vars, ext_vars, late_vars>>

\* One iteration of the loop: the post yields resp.
gw_attempt(resp) ==
    /\ gw.pc = "loop"
    /\ gw.attempt < attempts_allowed(gw.max_retries)
    /\ LET step == attempt_step(gw.attempt, gw.max_retries, resp)
           seen == Append(gw.history, resp)
       IN gw' = IF step.done
                THEN [gw EXCEPT !.pc = IF IsException(step.result)
                                       THEN "raised" ELSE "returned",
                                !.history = seen,
                                !.attempt = gw.attempt + 1,
                                !.result = step.result]
                ELSE IF gw.attempt + 1 < attempts_allowed(gw.max_retries)
                     THEN [gw EXCEPT !.history = seen, !.attempt = gw.attempt + 1]
                     ELSE [gw EXCEPT !.pc = "returned", !.history = seen,
                                     !.attempt = gw.attempt + 1,
                                     !.result = after_all_retries(gw.attempt + 1)]
    /\ UNCHANGED <<orch_vars, store_vars, ext_vars, late_vars>>

(***************************************************************************)
(* Worker pool: thread_pool = ThreadPoolExecutor(max_workers=1).  A work   *)
(* item is a call of direct_api_call_optimized handed over by              *)
(* loop.run_in_executor; pos is the chunk position (0 for other calls).    *)
(***************************************************************************)
WorkItem(kind, pos) == [kind |-> kind, pos |-> pos]

NoResult == Outcome(Returned("none", "none", 0, 0), -1)
NoFuture == [state |-> "none", result |-> NoResult]
PendingFuture == [state |-> "pending", result |-> NoResult]

\* The responses tried on the calls of the pool: a candidate, an error status
\* and a transport error.
PoolResponsesFor(t) ==
    { resp \in ResponsesFor(t) : resp.body \in {"candidates", "error", "transport_error"} }

\* Every stream of responses the endpoint can give to the attempts of one call.
ResponseStreams(t) ==
    [1..attempts_allowed(default_max_retries) -> PoolResponsesFor(t)]

\* loop.run_in_executor(thread_pool, direct_api_call_optimized, ...): the work
\* item joins the executor's queue.
run_in_executor(queue, item) == Append(queue, item)

\* A worker thread takes the oldest queued work item.
worker_start ==
    /\ pool_queue # <<>>
    /\ Cardinality(pool_running) < max_workers
    /\ LET item == Head(pool_queue) IN
       /\ pool_running' = pool_running \cup {item}
       /\ pool_queue' = Tail(pool_queue)
       /\ tasks' = IF item.kind = "chunk"
                   THEN [tasks EXCEPT ![item.pos + 1].state = "running"]
                   ELSE tasks
       /\ aux_future' = IF item.kind \in {"single", "synthesis"}
                        THEN [aux_future EXCEPT !.state = "running"]
                        ELSE aux_future
    /\ UNCHANGED <<pc, api_key, n_chunks, batch_i, all_results, report, others>>
    /\ UNCHANGED <<gw_vars, store_vars, ext_vars, late_vars>>

\* The outcomes the call of a work item can have, over every response stream.
CallOutcomes(item) ==
    { Outcome(direct_api_call_optimized(
                  IF item.kind = "other" THEN "key" ELSE api_key,
                  default_max_retries, responses),
              IF item.kind = "chunk" THEN item.pos ELSE -1) :
        responses \in ResponseStreams(item.pos) }

\* A worker thread's call of direct_api_call_optimized returns or raises; the
\* future of the work item is resolved with the outcome.
worker_finish(item) ==
    /\ item \in pool_running
    /\ \E r \in CallOutcomes(item) :
            /\ tasks' = IF item.kind = "chunk"
                        THEN [tasks EXCEPT ![item.pos + 1] =
                                 [state |-> "finished", result |-> r]]
                        ELSE tasks
            /\ aux_future' = IF item.kind \in {"single", "synthesis"}
                             THEN [state |-> "finished", result |-> r]
                             ELSE aux_future
    /\ pool_running' = pool_running \ {item}
    /\ UNCHANGED <<pc, api_key, n_chunks, pool_queue, batch_i, all_results, report, others>>
    /\ UNCHANGED <<gw_vars, store_vars, ext_vars, late_vars>>

\* Another handler (chat_with_documents) hands a call to the same pool.
submit_other ==
    /\ others < MaxOthers
    /\ others' = others + 1
    /\ pool_queue' = run_in_executor(pool_queue, WorkItem("other", 0))
    /\ UNCHANGED <<pc, api_key, n_chunks, tasks, pool_running, batch_i, all_results,
                   aux_future, report>>
    /\ UNCHANGED <<gw_vars, store_vars, ext_vars, late_vars>>

(***************************************************************************)
(* Parallel analysis orchestrator.                                         *)
(***************************************************************************)
\* analyze_large_document_fast, entry: a short text is one direct call; a long
\* one is chunked (n = len(chunks); the section split can leave no chunk).
\* The endpoints reject an empty API key before calling.
analyze_large_document_fast(short, n, key) ==
    /\ pc = "idle"
    /\ api_key' = key
    /\ IF short
       THEN /\ pc' = "await_single"
            /\ n_chunks' = 0
            /\ pool_queue' = run_in_executor(pool_queue, WorkItem("single", 0))
            /\ aux_future' = PendingFuture
       ELSE /\ pc' = IF n = 0 THEN "join" ELSE "submit"
            /\ n_chunks' = n
            /\ UNCHANGED <<pool_queue, aux_future>>
    /\ UNCHANGED <<tasks, pool_running, batch_i, all_results, report, others>>
    /\ UNCHANGED <<gw_vars, store_vars, ext_vars, late_vars>>

\* Short document: the awaited call's result is the report.
return_single ==
    /\ pc = "await_single"
    /\ aux_future.state = "finished"
    /\ IF IsException(aux_future.result)
       THEN pc' = "raised" /\ UNCHANGED report
       ELSE /\ pc' = "done"
            /\ report' = [form |-> "direct", sections |-> <<>>,
                          tail |-> <<aux_future.result>>]
    /\ UNCHANGED <<api_key, n_chunks, tasks, pool_queue, pool_running, batch_i,
                   all_results, aux_future, others>>
    /\ UNCHANGED <<gw_vars, store_vars, ext_vars, late_vars>>

\* analyze_chunks_parallel, first loop: one iteration hands the call for the
\* next position to the pool and appends its future to tasks.
submit_chunk ==
    /\ pc = "submit"
    /\ Len(tasks) < n_chunks
    /\ LET i == Len(tasks) IN
       /\ pool_queue' = run_in_executor(pool_queue, WorkItem("chunk", i))
       /\ tasks' = Append(tasks, PendingFuture)
       /\ pc' = IF i + 1 = n_chunks THEN "gather" ELSE "submit"
    /\ UNCHANGED <<api_key, n_chunks, pool_running, batch_i, all_results, aux_future,
                   report, others>>
    /\ UNCHANGED <<gw_vars, store_vars, ext_vars, late_vars>>

\* tasks[i:i + batch_size], as positions
BatchPositions(i) ==
    { p \in 0..(Len(tasks) - 1) : i <= p /\ p < i + batch_size }

\* Mutant of gather_results: results in reverse order of position.
gather_results_reversed(i) ==
    LET hi == IF i + batch_size < Len(tasks) THEN i + batch_size ELSE Len(tasks)
    IN [k \in 1..(hi - i) |-> tasks[hi - k + 1].result]

\* asyncio.gather(*batch, return_exceptions=True): the results of the batch in
\* the order of the batch, exceptions included as values.
gather_results(i) ==
    LET hi == IF i + batch_size < Len(tasks) THEN i + batch_size ELSE Len(tasks)
    IN [k \in 1..(hi - i) |-> tasks[i + k].result]

\* analyze_chunks_parallel, second loop: await the batch starting at i, extend
\* all_results, and sleep if another batch follows.
gather_batch ==
    /\ pc = "gather"
    /\ \A p \in BatchPositions(batch_i) : tasks[p + 1].state = "finished"
    /\ all_results' = all_results \o gather_results(batch_i)
    /\ IF batch_i + batch_size < Len(tasks)
       THEN pc' = "sleep" /\ UNCHANGED batch_i
       ELSE pc' = "join" /\ batch_i' = batch_i + batch_size
    /\ UNCHANGED <<api_key, n_chunks, tasks, pool_queue, pool_running, aux_future,
                   report, others>>
    /\ UNCHANGED <<gw_vars, store_vars, ext_vars, late_vars>>

\* await asyncio.sleep(0.5) returns; the loop moves to the next batch.
cooldown ==
    /\ pc = "sleep"
    /\ pc' = "gather"
    /\ batch_i' = batch_i + batch_size
    /\ UNCHANGED <<api_key, n_chunks, tasks, pool_queue, pool_running, all_results,
                   aux_future, report, others>>
    /\ UNCHANGED <<gw_vars, store_vars, ext_vars, late_vars>>

\* Mutant of chunk_analyses: sentinel strings are filtered out as well.
chunk_analyses_without_failed ==
    SelectSeq(all_results, LAMBDA r : r.kind \notin {"sentinel", "exception"})

\* return [r for r in all_results if not isinstance(r, Exception)]
chunk_analyses == SelectSeq(all_results, LAMBDA r : ~IsException(r))

\* "## Section {i+1}\n{analysis}" for i, analysis in enumerate(chunk_analyses)
Sections(analyses) ==
    [k \in 1..Len(analyses) |-> [label |-> k, body |-> analyses[k]]]

\* Mutant of join_sections: the synthesis call is made from three chunks on.
join_sections_from_three ==
    /\ pc = "join"
    /\ IF n_chunks < small_chunk_count
       THEN /\ pc' = "done"
            /\ report' = [form |-> "sections", sections |-> Sections(chunk_analyses),
                          tail |-> <<>>]
            /\ UNCHANGED <<pool_queue, aux_future>>
       ELSE /\ pc' = "await_synthesis"
            /\ pool_queue' = run_in_executor(pool_queue, WorkItem("synthesis", 0))
            /\ aux_future' = PendingFuture
            /\ UNCHANGED report
    /\ UNCHANGED <<api_key, n_chunks, tasks, pool_running, batch_i, all_results, others>>
    /\ UNCHANGED <<gw_vars, store_vars, ext_vars, late_vars>>

\* analyze_large_document_fast after analyze_chunks_parallel returned: up to
\* three chunks the joined sections are the report; otherwise the synthesis
\* call is handed to the pool.
join_sections ==
    /\ pc = "join"
    /\ IF n_chunks <= small_chunk_count
       THEN /\ pc' = "done"
            /\ report' = [form |-> "sections", sections |-> Sections(chunk_analyses),
                          tail |-> <<>>]
            /\ UNCHANGED <<pool_queue, aux_future>>
       ELSE /\ pc' = "await_synthesis"
            /\ pool_queue' = run_in_executor(pool_queue, WorkItem("synthesis", 0))
            /\ aux_future' = PendingFuture
            /\ UNCHANGED report
    /\ UNCHANGED <<api_key, n_chunks, tasks, pool_running, batch_i, all_results, others>>
    /\ UNCHANGED <<gw_vars, store_vars, ext_vars, late_vars>>

\* The synthesis call returned: sections, then the executive summary.
return_synthesis ==
    /\ pc = "await_synthesis"
    /\ aux_future.state = "finished"
    /\ IF IsException(aux_future.result)
       THEN pc' = "raised" /\ UNCHANGED report
       ELSE /\ pc' = "done"
            /\ report' = [form |-> "sections+summary",
                          sections |-> Sections(chunk_analyses),
                          tail |-> <<aux_future.result>>]
    /\ UNCHANGED <<api_key, n_chunks, tasks, pool_queue, pool_running, batch_i,
                   all_results, aux_future, others>>
    /\ UNCHANGED <<gw_vars, store_vars, ext_vars, late_vars>>

(***************************************************************************)
(* Improvement store: table prompt_improvements, written by the feedback   *)
(* engine and read and updated by analyze_with_feedback_improvements.      *)
(* SQL statements are atomic and are taken to succeed.  created_at is the   *)
(* insertion time; successive INSERT statements get increasing times.      *)
(***************************************************************************)
\* The fixed guideline blocks the engine writes as improved_prompt.
PromptAdditions == {"ACCURACY IMPROVEMENT GUIDELINES", "TONE IMPROVEMENT GUIDELINES"}

Requests == 1..MaxRequests

Row(text, usage, active, created) ==
    [improved_prompt |-> text, usage_count |-> usage, is_active |-> active,
     created_at |-> created]

RowIds(rows) == 1..Len(rows)

ActiveIds(rows) == { i \in RowIds(rows) : rows[i].is_active }

\* Mutant of select_improved_prompt: ORDER BY created_at DESC only.
select_latest_prompt(rows) ==
    { i \in ActiveIds(rows) :
        \A j \in ActiveIds(rows) : rows[j].created_at <= rows[i].created_at }

\* SELECT improved_prompt FROM prompt_improvements WHERE is_active = TRUE
\* ORDER BY usage_count ASC, created_at DESC LIMIT 1: the ids of the rows that
\* can come first in that order (empty when fetchrow returns None).
select_improved_prompt(rows) ==
    { i \in ActiveIds(rows) :
        \A j \in ActiveIds(rows) :
            \/ rows[i].usage_count < rows[j].usage_count
            \/ /\ rows[i].usage_count = rows[j].usage_count
               /\ rows[i].created_at >= rows[j].created_at }

\* UPDATE prompt_improvements SET usage_count = usage_count + 1
\* WHERE improved_prompt = $1
update_usage_count(rows, text) ==
    [i \in RowIds(rows) |->
        IF rows[i].improved_prompt = text
        THEN [rows[i] EXCEPT !.usage_count = rows[i].usage_count + 1]
        ELSE rows[i]]

ReqIdle == [pc |-> "idle", improved_prompt |-> "", row |-> 0, prompt |-> <<>>]

\* create_improved_prompt_entry: INSERT a row for an improvement, is_active
\* TRUE, usage_count and created_at by their column defaults.
create_improved_prompt_entry(text) ==
    /\ db_pool
    /\ Len(prompt_improvements) < MaxRows
    /\ prompt_improvements' =
          Append(prompt_improvements, Row(text, 0, TRUE, Len(prompt_improvements) + 1))
    /\ UNCHANGED <<db_pool, req, usage_updates>>
    /\ UNCHANGED <<orch_vars, gw_vars, ext_vars, late_vars>>

\* Administrative activate / deactivate of an improvement.
set_active(i, active) ==
    /\ i \in RowIds(prompt_improvements)
    /\ prompt_improvements[i].is_active # active
    /\ prompt_improvements' = [prompt_improvements EXCEPT ![i].is_active = active]
    /\ UNCHANGED <<db_pool, req, usage_updates>>
    /\ UNCHANGED <<orch_vars, gw_vars, ext_vars, late_vars>>

\* analyze_with_feedback_improvements up to the fetchrow: without a pool or
\* without an active row the request falls back to the original prompt.
analyze_select(p) ==
    /\ req[p].pc = "idle"
    /\ usage_updates + Cardinality({ q \in Requests : req[q].pc = "selected" }) < MaxUpdates
    /\ LET found == IF db_pool THEN select_improved_prompt(prompt_improvements) ELSE {}
       IN IF found = {}
          THEN req' = [req EXCEPT ![p] = [pc |-> "fallback", improved_prompt |-> "",
                                          row |-> 0, prompt |-> <<"prompt_context">>]]
          ELSE \E i \in found :
                 req' = [req EXCEPT ![p] =
                    [pc |-> "selected",
                     improved_prompt |-> prompt_improvements[i].improved_prompt,
                     row |-> i,
                     prompt |-> <<"prompt_context",
                                  prompt_improvements[i].improved_prompt>>]]
    /\ UNCHANGED <<db_pool, prompt_improvements, usage_updates>>
    /\ UNCHANGED <<orch_vars, gw_vars, ext_vars, late_vars>>

\* The UPDATE of the usage count, by the text the SELECT returned.
analyze_update(p) ==
    /\ req[p].pc = "selected"
    /\ prompt_improvements' =
          update_usage_count(prompt_improvements, req[p].improved_prompt)
    /\ usage_updates' = usage_updates + 1
    /\ req' = [req EXCEPT ![p].pc = "enhanced"]
    /\ UNCHANGED db_pool
    /\ UNCHANGED <<orch_vars, gw_vars, ext_vars, late_vars>>

\* The analysis runs with the request's prompt and the request returns.
analyze_return(p) ==
    /\ req[p].pc \in {"enhanced", "fallback"}
    /\ req' = [req EXCEPT ![p] = ReqIdle]
    /\ UNCHANGED <<db_pool, prompt_improvements, usage_updates>>
    /\ UNCHANGED <<orch_vars, gw_vars, ext_vars, late_vars>>

(***************************************************************************)
(* Retrieval index: the global rag_pipeline (LightweightRAGPipeline) and   *)
(* the handlers that feed and query it.  add_document and                  *)
(* retrieve_relevant_chunks are plain functions called from the handlers   *)
(* on the event-loop thread and contain no await, so each runs to its end  *)
(* before another handler runs.                                            *)
(*                                                                         *)
(* A chunk is named by the document it was cut from and its index in that  *)
(* document.  The fitted model is a function of the corpus it was fitted   *)
(* on, and the corpus only grows by appending, so a model is named by the  *)
(* size of that corpus (0: not fitted).  Similarities are in tenths.  Rows *)
(* of document_vectors and chunks are numbered from 1 here (idx + 1).      *)
(* The observability globals retrieval_attempts, retrieval_successes and   *)
(* retrieval_scores only grow and no branch reads them; they are left out. *)
(***************************************************************************)
min_df == 1               \* TfidfVectorizer(min_df=1)
max_df_tenths == 9        \* TfidfVectorizer(max_df=0.9)
relevance_threshold == 1  \* similarities[idx] > 0.1

NoVectorizer == [present |-> FALSE, fit |-> 0]

Vectorizer(fit) == [present |-> TRUE, fit |-> fit]

NoVectors == [present |-> FALSE, model |-> 0, rows |-> 0]

Vectors(model, rows) == [present |-> TRUE, model |-> model, rows |-> rows]

Chunk(document_id, chunk_index) ==
    [document_id |-> document_id, chunk_index |-> chunk_index]

NoQuery == [kind |-> "none", why |-> "", results |-> <<>>, k |-> 0, sims |-> <<>>,
            query_model |-> 0, vectors_model |-> 0, rows |-> 0, corpus |-> 0]

\* get_api_key: the request's key, or else the environment's.
get_api_key(key) == IF key # "" THEN key ELSE DEFAULT_API_KEY

\* _load_sklearn: TRUE when the imports succeed or have succeeded before.
load_sklearn == sklearn_loaded \/ sklearn_installed

\* The pipeline's (_sklearn_loaded, vectorizer, is_initialized) after
\* initialize_model().
initialize_model ==
    IF is_initialized
    THEN [loaded |-> sklearn_loaded, vectorizer |-> vectorizer, initialized |-> TRUE]
    ELSE IF load_sklearn
         THEN [loaded |-> TRUE, vectorizer |-> Vectorizer(0), initialized |-> TRUE]
         ELSE [loaded |-> FALSE, vectorizer |-> vectorizer, initialized |-> FALSE]

\* enhanced_startup_event, the retrieval index's part: rag_pipeline.initialize_model().
enhanced_startup_event ==
    /\ rag_result = NoQuery
    /\ sklearn_loaded' = initialize_model.loaded
    /\ vectorizer' = initialize_model.vectorizer
    /\ is_initialized' = initialize_model.initialized
    /\ UNCHANGED <<sklearn_installed, DEFAULT_API_KEY, document_vectors, chunks,
                   chunk_metadata, rag_result, document_cache, documents, http>>
    /\ UNCHANGED <<orch_vars, gw_vars, store_vars, chunker_vars, cycle_vars, late_vars>>

\* vectorizer.fit_transform over a corpus of n chunks: with max_df=0.9 and
\* min_df=1 the fit raises ValueError when 0.9 * n < 1; otherwise it raises
\* when no term is left after pruning (all chunks stop words, or every term
\* in more than 0.9 * n chunks), which depends on the text.
fit_transform(n) ==
    IF max_df_tenths * n < 10 * min_df THEN {"ValueError"} ELSE {"ok", "ValueError"}

\* The chunks chunk_text_for_rag cuts from a document: n chunks, indexed from 0.
chunk_text_for_rag(document_id, n) == [i \in 1..n |-> Chunk(document_id, i - 1)]

\* add_document(document_id, text): n is the number of chunks the text is
\* cut into, fit the outcome of fit_transform.  A raising fit is caught and
\* logged after the chunks and their metadata were appended.
add_document(document_id, n, fit) ==
    LET m == initialize_model
        new == chunk_text_for_rag(document_id, n)
    IN /\ sklearn_loaded' = m.loaded
       /\ is_initialized' = m.initialized
       /\ IF ~m.vectorizer.present
          THEN /\ vectorizer' = m.vectorizer
               /\ UNCHANGED <<chunks, chunk_metadata, document_vectors>>
          ELSE /\ chunks' = chunks \o new
               /\ chunk_metadata' = chunk_metadata \o new
               /\ IF Len(chunks') > 0 /\ fit = "ok"
                  THEN /\ vectorizer' = Vectorizer(Len(chunks'))
                       /\ document_vectors' = Vectors(Len(chunks'), Len(chunks'))
                  ELSE /\ vectorizer' = m.vectorizer
                       /\ UNCHANGED document_vectors

\* A request body of /api/analyze/text: whether text is empty, the number of
\* retrieval chunks a non-empty text is cut into, and the api_key field.
AnalyzeRequests ==
    [empty : BOOLEAN, rag_chunks : 0..MaxRagChunks, key : ApiKeys]

\* What the handler did with a request: the response status (200 stands for
\* the hand-over to the analysis), the document id generated, whether
\* analyze_with_feedback_improvements (and with it the external API) was
\* called, and the two facts about the request that the checks look at.
Http(status, document_id, analysis, request) ==
    [status |-> status, document_id |-> document_id, analysis |-> analysis,
     empty |-> request.empty, no_key |-> get_api_key(request.key) = ""]

HttpNone == [status |-> 0, document_id |-> 0, analysis |-> FALSE,
             empty |-> FALSE, no_key |-> FALSE]

\* Mutant of analyze_policy_text: the document is cached and indexed before
\* the API key is looked at.
analyze_policy_text_late_check(request, fit) ==
    /\ rag_result = NoQuery
    /\ documents < MaxDocs
    /\ IF request.empty
       THEN /\ http' = Http(400, 0, FALSE, request)
            /\ UNCHANGED <<sklearn_loaded, is_initialized, vectorizer, document_vectors,
                           chunks, chunk_metadata, document_cache, documents>>
       ELSE /\ Len(chunks) + request.rag_chunks <= MaxCorpus
            /\ fit \in fit_transform(Len(chunks) + request.rag_chunks)
            /\ documents' = documents + 1
            /\ document_cache' = document_cache \cup {documents'}
            /\ add_document(documents', request.rag_chunks, fit)
            /\ http' = IF get_api_key(request.key) = ""
                       THEN Http(400, 0, FALSE, request)
                       ELSE Http(200, documents', TRUE, request)
    /\ UNCHANGED <<sklearn_installed, DEFAULT_API_KEY, rag_result>>
    /\ UNCHANGED <<orch_vars, gw_vars, store_vars, chunker_vars, cycle_vars, late_vars>>

\* analyze_policy_text up to its first await: the two input checks (each
\* raises HTTPException 400), then the document id, the document cache, the
\* retrieval index (setup_rag_for_document) and the call of
\* analyze_with_feedback_improvements.
analyze_policy_text(request, fit) ==
    /\ rag_result = NoQuery
    /\ documents < MaxDocs
    /\ IF request.empty \/ get_api_key(request.key) = ""
       THEN /\ http' = Http(400, 0, FALSE, request)
            /\ UNCHANGED <<sklearn_loaded, is_initialized, vectorizer, document_vectors,
                           chunks, chunk_metadata, document_cache, documents>>
       ELSE /\ Len(chunks) + request.rag_chunks <= MaxCorpus
            /\ fit \in fit_transform(Len(chunks) + request.rag_chunks)
            /\ documents' = documents + 1
            /\ document_cache' = document_cache \cup {documents'}
            /\ add_document(documents', request.rag_chunks, fit)
            /\ http' = Http(200, documents', TRUE, request)
    /\ UNCHANGED <<sklearn_installed, DEFAULT_API_KEY, rag_result>>
    /\ UNCHANGED <<orch_vars, gw_vars, store_vars, chunker_vars, cycle_vars, late_vars>>

\* The similarity vectors cosine_similarity can give over rows rows.
Similarities(rows) == [1..rows -> 0..MaxScore]

\* similarities.argsort(): the rows in ascending order of similarity; rows of
\* equal similarity come in an order the sort does not fix.
argsort(sims) ==
    { o \in [DOMAIN sims -> DOMAIN sims] :
        /\ \A i, j \in DOMAIN sims : i # j => o[i] # o[j]
        /\ \A i \in DOMAIN sims : i + 1 \in DOMAIN sims => sims[o[i]] <= sims[o[i + 1]] }

\* Mutant of top_indices: order[:k], the k lowest rows.
bottom_indices(order, k) ==
    LET n == IF k < Len(order) THEN k ELSE Len(order)
    IN [i \in 1..n |-> order[i]]

\* order[-k:][::-1] for k >= 1: the last k rows of order, last first.
top_indices(order, k) ==
    LET m == Len(order)
        n == IF k < m THEN k ELSE m
    IN [i \in 1..n |-> order[m - i + 1]]

QueryResult(kind, why, results, k, sims) ==
    [kind |-> kind, why |-> why, results |-> results, k |-> k, sims |-> sims,
     query_model |-> vectorizer.fit, vectors_model |-> document_vectors.model,
     rows |-> document_vectors.rows, corpus |-> Len(chunks)]

\* The loop over top_indices: the rows that exist in chunks and score above
\* the threshold, with chunk, score and metadata.
results_of(top, sims) ==
    LET Keep(idx) == idx <= Len(chunks) /\ sims[idx] > relevance_threshold
        kept == SelectSeq(top, Keep)
    IN [i \in 1..Len(kept) |->
          [idx |-> kept[i], chunk |-> chunks[kept[i]], score |-> sims[kept[i]],
           metadata |-> chunk_metadata[kept[i]]]]

\* Mutant of score_chunks: the scoring block without its try/except.
score_chunks_unguarded(k, sims, order, raises) ==
    IF raises
    THEN QueryResult("raised", "scoring", <<>>, k, sims)
    ELSE QueryResult("returned", "scored", results_of(top_indices(order, k), sims), k, sims)

\* The try block of retrieve_relevant_chunks: transform, cosine_similarity,
\* argsort and the loop; an exception anywhere in it returns [].
score_chunks(k, sims, order, raises) ==
    IF raises
    THEN QueryResult("returned", "scoring", <<>>, k, sims)
    ELSE QueryResult("returned", "scored", results_of(top_indices(order, k), sims), k, sims)

\* TRUE when retrieve_relevant_chunks gets past its early returns.
index_ready ==
    /\ sklearn_loaded
    /\ is_initialized /\ vectorizer.present /\ document_vectors.present

\* retrieve_relevant_chunks(query, k): sims is what cosine_similarity gives
\* for the query, order what argsort gives, raises whether scoring raises.
retrieve_relevant_chunks(k, sims, order, raises) ==
    /\ rag_result = NoQuery
    /\ rag_result' =
          IF ~sklearn_loaded THEN QueryResult("returned", "unavailable", <<>>, k, sims)
          ELSE IF ~index_ready THEN QueryResult("returned", "not_indexed", <<>>, k, sims)
          ELSE score_chunks(k, sims, order, raises)
    /\ UNCHANGED <<sklearn_installed, DEFAULT_API_KEY, sklearn_loaded, is_initialized,
                   vectorizer, document_vectors, chunks, chunk_metadata,
                   document_cache, documents, http>>
    /\ UNCHANGED <<orch_vars, gw_vars, store_vars, chunker_vars, cycle_vars, late_vars>>

\* The caller takes the returned list (get_rag_context builds the context
\* string from it) and the handler goes on.
get_rag_context_return ==
    /\ rag_result # NoQuery
    /\ rag_result' = NoQuery
    /\ UNCHANGED <<sklearn_installed, DEFAULT_API_KEY, sklearn_loaded, is_initialized,
                   vectorizer, document_vectors, chunks, chunk_metadata,
                   document_cache, documents, http>>
    /\ UNCHANGED <<orch_vars, gw_vars, store_vars, chunker_vars, cycle_vars, late_vars>>

\* A query, for every k from 1 and every outcome of the scoring.
query ==
    /\ rag_result = NoQuery
    /\ \E sims \in Similarities(IF index_ready THEN document_vectors.rows ELSE 0) :
         \E order \in argsort(sims) :
           \E k \in 1..MaxK, raises \in BOOLEAN :
             retrieve_relevant_chunks(k, sims, order, raises)

InitRagIdle ==
    /\ sklearn_installed = TRUE
    /\ DEFAULT_API_KEY = ""
    /\ sklearn_loaded = FALSE
    /\ is_initialized = FALSE
    /\ vectorizer = NoVectorizer
    /\ document_vectors = NoVectors
    /\ chunks = <<>>
    /\ chunk_metadata = <<>>
    /\ rag_result = NoQuery
    /\ document_cache = {}
    /\ documents = 0
    /\ http = HttpNone

(***************************************************************************)
(* Document chunker smart_chunk_text.                                      *)
(*                                                                         *)
(* A text is the sequence of the pieces text.split('\n\n') gives, each     *)
(* piece taken with its length only, and the flag toc when the text holds  *)
(* "TABLE OF CONTENTS" in any case.  A piece with heading TRUE is          *)
(* "CHAPTER 1" followed, when len > 0, by a blank and len characters; the  *)
(* other pieces are len characters.  Non-empty content neither starts nor  *)
(* ends with white space.  A heading is matched by the section pattern     *)
(* only after a newline, so the first piece carries none.  A chunk is the  *)
(* run of pieces it spans, first to last, and its length in characters.    *)
(***************************************************************************)
max_chunk_size == 30000     \* smart_chunk_text(text, max_chunk_size=30000)
min_section_length == 1000  \* len(section.strip()) > 1000

\* Piece lengths tried: empty, below the section minimum, half of the
\* maximum chunk size, and above the maximum.
PieceLengths == {0, 600, max_chunk_size \div 2, max_chunk_size + 1}

Piece(len, heading) == [len |-> len, heading |-> heading]

\* len(piece) in the text, heading included.
PieceLen(piece) ==
    IF piece.heading
    THEN 9 + (IF piece.len > 0 THEN 1 + piece.len ELSE 0)
    ELSE piece.len

RECURSIVE SumLen(_, _, _)
\* Length of pieces[from..to] joined by "\n\n".
SumLen(lens, from, to) ==
    IF from > to THEN 0
    ELSE IF from = to THEN lens[from]
    ELSE lens[from] + 2 + SumLen(lens, from + 1, to)

PieceLens(pieces) == [i \in DOMAIN pieces |-> PieceLen(pieces[i])]

\* len(text)
TextLen(pieces) == SumLen(PieceLens(pieces), 1, Len(pieces))

Texts ==
    { t \in [pieces : UNION { [1..n -> [len : PieceLengths, heading : BOOLEAN]] :
                                n \in 1..MaxPieces },
             toc : BOOLEAN] :
        /\ ~t.pieces[1].heading
        /\ t.toc => \E i \in DOMAIN t.pieces : PieceLen(t.pieces[i]) >= 17 }

TextChunk(from, to, len) == [from |-> from, to |-> to, len |-> len]

EmptyChunk == TextChunk(1, 0, 0)

\* The pieces pattern-split sections start at: the first, and every heading.
SectionStarts(pieces) == {1} \cup { i \in DOMAIN pieces : pieces[i].heading }

\* section.strip() of the section pieces[from..to]: the heading itself is
\* consumed by the split, empty pieces at either end go with the white space.
stripped_section(pieces, from, to) ==
    LET content == [i \in DOMAIN pieces |-> pieces[i].len]
        filled == { i \in from..to : content[i] > 0 }
    IN IF filled = {} THEN EmptyChunk
       ELSE LET first == CHOOSE i \in filled : \A j \in filled : i <= j
                last == CHOOSE i \in filled : \A j \in filled : j <= i
            IN TextChunk(first, last, SumLen(content, first, last))

RECURSIVE split_sections(_, _)
\* [section.strip() for section in sections if len(section.strip()) > 1000],
\* for the sections from piece `from` on.
split_sections(pieces, from) ==
    IF from > Len(pieces) THEN <<>>
    ELSE LET later == { i \in SectionStarts(pieces) : i > from }
             to == IF later = {} THEN Len(pieces)
                   ELSE (CHOOSE i \in later : \A j \in later : i <= j) - 1
             section == stripped_section(pieces, from, to)
         IN (IF section.len > min_section_length THEN <<section>> ELSE <<>>)
            \o split_sections(pieces, to + 1)

RECURSIVE pack_paragraphs(_, _, _, _, _)
\* The loop `for para in paragraphs` from piece i on, and the final flush.
pack_paragraphs(lens, size, i, current_chunk, out) ==
    IF i > Len(lens)
    THEN IF current_chunk.len > 0 THEN Append(out, current_chunk) ELSE out
    ELSE LET para == TextChunk(i, i, lens[i]) IN
         IF current_chunk.len + para.len > size /\ current_chunk.len > 0
         THEN pack_paragraphs(lens, size, i + 1, para, Append(out, current_chunk))
         ELSE pack_paragraphs(lens, size, i + 1,
                 IF current_chunk.len > 0
                 THEN TextChunk(current_chunk.from, i, current_chunk.len + 2 + para.len)
                 ELSE para,
                 out)

\* Mutant of smart_chunk_text: without the first check on len(text).
smart_chunk_text_always_split(text, size) ==
    IF text.toc THEN split_sections(text.pieces, 1)
    ELSE pack_paragraphs(PieceLens(text.pieces), size, 1, EmptyChunk, <<>>)

smart_chunk_text(text, size) ==
    IF TextLen(text.pieces) <= size
    THEN <<TextChunk(1, Len(text.pieces), TextLen(text.pieces))>>
    ELSE IF text.toc THEN split_sections(text.pieces, 1)
    ELSE pack_paragraphs(PieceLens(text.pieces), size, 1, EmptyChunk, <<>>)

ChunkerIdle(text) == [text |-> text, called |-> FALSE, chunks |-> <<>>]

\* chunks = smart_chunk_text(text, max_chunk_size=30000)
chunk_document ==
    /\ ~chunker.called
    /\ chunker' = [chunker EXCEPT !.called = TRUE,
                                  !.chunks = smart_chunk_text(chunker.text, max_chunk_size)]
    /\ UNCHANGED <<orch_vars, gw_vars, store_vars, rag_vars, cycle_vars, late_vars>>

InitChunkerIdle == chunker = ChunkerIdle([pieces |-> <<Piece(0, FALSE)>>, toc |-> FALSE])

(***************************************************************************)
(* Feedback cycle: run_scheduled_improvements and the engine's             *)
(* run_periodic_improvements, one step per awaited call.  The feedback     *)
(* table is the environment: each cycle's analysis gets the total          *)
(* frequency of the accuracy issue bucket (built from groups of at least   *)
(* min_feedback_count records) and of the tone correction bucket.          *)
(* Confidence is in hundredths.                                            *)
(***************************************************************************)
min_feedback_count == 5                  \* 'min_feedback_count': 5
improvement_confidence_threshold == 70   \* 'improvement_confidence_threshold': 0.7
issue_confidence_divisor == 20           \* min(total_frequency / 20.0, 1.0)
correction_confidence_divisor == 10      \* min(total_frequency / 10.0, 1.0)

Min(a, b) == IF a < b THEN a ELSE b

Improvement(type, prompt_addition, confidence) ==
    [type |-> type, prompt_addition |-> prompt_addition, confidence |-> confidence]

\* create_improvement_for_issue_type
create_improvement_for_issue_type(issue_type, total_frequency) ==
    Improvement(issue_type, "ACCURACY IMPROVEMENT GUIDELINES",
                Min((total_frequency * 100) \div issue_confidence_divisor, 100))

\* create_improvement_for_corrections
create_improvement_for_corrections(correction_type, total_frequency) ==
    Improvement(correction_type, "TONE IMPROVEMENT GUIDELINES",
                Min((total_frequency * 100) \div correction_confidence_divisor, 100))

\* What analyze_feedback_patterns can return: the total frequency of each
\* bucket (0: the bucket is empty).
Patterns ==
    [accuracy_issues : {0} \cup (min_feedback_count..MaxFrequency),
     tone_corrections : 0..MaxFrequency]

NoPatterns == [accuracy_issues |-> 0, tone_corrections |-> 0]

\* generate_pattern_based_improvements: issue buckets first, then correction
\* buckets, an improvement for every bucket that is not empty.
generate_pattern_based_improvements(patterns) ==
    (IF patterns.accuracy_issues > 0
     THEN <<create_improvement_for_issue_type("accuracy_issues", patterns.accuracy_issues)>>
     ELSE <<>>)
    \o
    (IF patterns.tone_corrections > 0
     THEN <<create_improvement_for_corrections("tone_corrections_improvement",
                                               patterns.tone_corrections)>>
     ELSE <<>>)

\* Mutant of meets_threshold: every improvement is applied.
meets_no_threshold(improvement) == improvement.confidence >= 0

\* if improvement['confidence'] >= improvement_confidence_threshold
meets_threshold(improvement) ==
    improvement.confidence >= improvement_confidence_threshold

\* The scheduler task and the cycle it is running.  failed: the last cycle
\* ended in an exception.  escaped: an exception left
\* run_periodic_improvements.  persisted: what this cycle inserted.
Scheduler(at, patterns, improvements, i, persisted, failed, escaped) ==
    [pc |-> at, patterns |-> patterns, improvements |-> improvements, i |-> i,
     persisted |-> persisted, failed |-> failed, escaped |-> escaped]

SchedulerStart == Scheduler("tick", NoPatterns, <<>>, 0, <<>>, FALSE, FALSE)

\* Mutant of cycle_failure: run_periodic_improvements without its try/except;
\* the exception reaches the except clause of run_scheduled_improvements.
cycle_failure_unguarded(s) ==
    [s EXCEPT !.pc = "sleep_1h", !.failed = TRUE, !.escaped = TRUE]

\* An exception in a step of the cycle: run_periodic_improvements logs it and
\* returns, and the scheduler sleeps its 6 hours.
cycle_failure(s) ==
    [s EXCEPT !.pc = "sleep_6h", !.failed = TRUE]

\* Top of `while True`: with an engine the cycle starts, without one the task
\* only sleeps.
scheduler_tick ==
    /\ scheduler.pc = "tick"
    /\ scheduler' =
          IF improvement_engine
          THEN Scheduler("analyze", NoPatterns, <<>>, 0, <<>>, FALSE, scheduler.escaped)
          ELSE [scheduler EXCEPT !.pc = "sleep_6h"]
    /\ UNCHANGED <<improvement_engine, store_vars>>
    /\ UNCHANGED <<orch_vars, gw_vars, rag_vars, chunker_vars, late_vars>>

\* patterns = await self.analyze_feedback_patterns(): the queries raise, or
\* return the buckets.
analyze_feedback_patterns(raises, patterns) ==
    /\ scheduler.pc = "analyze"
    /\ scheduler' =
          IF raises THEN cycle_failure(scheduler)
          ELSE [scheduler EXCEPT !.pc = "generate", !.patterns = patterns]
    /\ UNCHANGED <<improvement_engine, store_vars>>
    /\ UNCHANGED <<orch_vars, gw_vars, rag_vars, chunker_vars, late_vars>>

\* improvements = await self.generate_pattern_based_improvements(patterns)
generate_improvements ==
    /\ scheduler.pc = "generate"
    /\ scheduler' =
          [scheduler EXCEPT !.pc = "apply", !.i = 1,
              !.improvements = generate_pattern_based_improvements(scheduler.patterns)]
    /\ UNCHANGED <<improvement_engine, store_vars>>
    /\ UNCHANGED <<orch_vars, gw_vars, rag_vars, chunker_vars, late_vars>>

\* INSERT INTO prompt_improvements (..., improved_prompt, ..., is_active)
\* VALUES (..., prompt_addition, ..., True)
insert_improvement(rows, improvement) ==
    Append(rows, Row(improvement.prompt_addition, 0, TRUE, Len(rows) + 1))

\* One iteration of the loop of apply_automatic_improvements over
\* improvements[i]; `rows` is the table after a successful INSERT.  A raising
\* INSERT is logged and the loop goes on.
apply_step(raises, rows) ==
    LET improvement == scheduler.improvements[scheduler.i] IN
    IF meets_threshold(improvement) /\ ~raises
    THEN /\ prompt_improvements' = rows
         /\ scheduler' =
               [scheduler EXCEPT !.i = scheduler.i + 1,
                   !.persisted = Append(scheduler.persisted,
                        [index |-> scheduler.i,
                         improved_prompt |-> rows[Len(rows)].improved_prompt,
                         is_active |-> rows[Len(rows)].is_active])]
    ELSE /\ scheduler' = [scheduler EXCEPT !.i = scheduler.i + 1]
         /\ UNCHANGED prompt_improvements

apply_automatic_improvements(raises) ==
    /\ scheduler.pc = "apply"
    /\ scheduler.i <= Len(scheduler.improvements)
    /\ Len(prompt_improvements) < MaxRows
    /\ apply_step(raises, insert_improvement(prompt_improvements,
                                             scheduler.improvements[scheduler.i]))
    /\ UNCHANGED <<improvement_engine, db_pool, req, usage_updates>>
    /\ UNCHANGED <<orch_vars, gw_vars, rag_vars, chunker_vars, late_vars>>

\* The loop is over: return applied_count.
apply_return ==
    /\ scheduler.pc = "apply"
    /\ scheduler.i > Len(scheduler.improvements)
    /\ scheduler' = [scheduler EXCEPT !.pc = "metrics"]
    /\ UNCHANGED <<improvement_engine, store_vars>>
    /\ UNCHANGED <<orch_vars, gw_vars, rag_vars, chunker_vars, late_vars>>

\* await self.update_performance_metrics(patterns); then the cycle is over and
\* the scheduler sleeps 6 hours.
update_performance_metrics(raises) ==
    /\ scheduler.pc = "metrics"
    /\ scheduler' =
          IF raises THEN cycle_failure(scheduler)
          ELSE [scheduler EXCEPT !.pc = "sleep_6h"]
    /\ UNCHANGED <<improvement_engine, store_vars>>
    /\ UNCHANGED <<orch_vars, gw_vars, rag_vars, chunker_vars, late_vars>>

\* asyncio.sleep returns (6 hours after a cycle, 1 hour in the except clause
\* of run_scheduled_improvements) and the loop starts over.
sleep_elapsed ==
    /\ scheduler.pc \in {"sleep_6h", "sleep_1h"}
    /\ scheduler' = [scheduler EXCEPT !.pc = "tick"]
    /\ UNCHANGED <<improvement_engine, store_vars>>
    /\ UNCHANGED <<orch_vars, gw_vars, rag_vars, chunker_vars, late_vars>>

InitCycleIdle ==
    /\ improvement_engine = FALSE
    /\ scheduler = SchedulerStart

(***************************************************************************)
(* Feedback submission: submit_feedback, one step per awaited call.  The   *)
(* INSERT of the feedback record and the INSERT of its analytics run in    *)
(* one transaction, which commits when the `async with` block is left by   *)
(* the return statement and rolls back when it is left by an exception.    *)
(* feedback is the set of ids of the committed feedback records.           *)
(***************************************************************************)
Submit(at, feedback_id, improvements, status, ack) ==
    [pc |-> at, feedback_id |-> feedback_id, improvements |-> improvements,
     status |-> status, ack |-> ack]

SubmitIdle == Submit("idle", 0, FALSE, 0, 0)

\* Mutant of on_exception: the except clause answers with the acknowledgment.
on_exception_ignored(s) ==
    [s EXCEPT !.pc = "done", !.status = 200, !.ack = s.feedback_id]

\* except Exception: raise HTTPException(status_code=500)
on_exception(s) ==
    [s EXCEPT !.pc = "done", !.status = 500, !.ack = 0]

\* POST /api/feedback arrives; improvements tells whether
\* analyze_feedback_and_improve will find anything to store (low rating or a
\* known category).  Without a database the handler answers 500 at once.
submit_feedback(improvements) ==
    /\ submit.pc = "idle"
    /\ feedback_seq < MaxFeedback
    /\ submit' = IF db_pool
                 THEN Submit("acquire", 0, improvements, 0, 0)
                 ELSE Submit("done", 0, improvements, 500, 0)
    /\ UNCHANGED <<feedback, feedback_seq>>
    /\ UNCHANGED <<orch_vars, gw_vars, store_vars, ext_vars, chat_vars, batch_vars>>

\* async with db_pool.acquire() as conn: async with conn.transaction():
submit_acquire(raises) ==
    /\ submit.pc = "acquire"
    /\ submit' = IF raises THEN on_exception(submit)
                 ELSE [submit EXCEPT !.pc = "insert"]
    /\ UNCHANGED <<feedback, feedback_seq>>
    /\ UNCHANGED <<orch_vars, gw_vars, store_vars, ext_vars, chat_vars, batch_vars>>

\* feedback_id = await conn.fetchval(INSERT INTO feedback ... RETURNING id)
submit_insert(raises) ==
    /\ submit.pc = "insert"
    /\ IF raises
       THEN /\ submit' = on_exception(submit)
            /\ UNCHANGED feedback_seq
       ELSE /\ feedback_seq' = feedback_seq + 1
            /\ submit' = [submit EXCEPT !.pc = "analyze", !.feedback_id = feedback_seq']
    /\ UNCHANGED feedback
    /\ UNCHANGED <<orch_vars, gw_vars, store_vars, ext_vars, chat_vars, batch_vars>>

\* improvements = await analyze_feedback_and_improve(feedback_id, request,
\* conn): the INSERT INTO feedback_analytics runs when improvements is not
\* empty, and its exception is not caught there.  Then the background task is
\* created and the return statement leaves the transaction block.
submit_analyze(raises) ==
    /\ submit.pc = "analyze"
    /\ raises => submit.improvements
    /\ submit' = IF raises THEN on_exception(submit)
                 ELSE [submit EXCEPT !.pc = "commit"]
    /\ UNCHANGED <<feedback, feedback_seq>>
    /\ UNCHANGED <<orch_vars, gw_vars, store_vars, ext_vars, chat_vars, batch_vars>>

\* Leaving conn.transaction(): COMMIT.  When the commit raises, the record
\* is stored or not (the reply can be lost after the commit was done).
submit_commit(raises, stored) ==
    /\ submit.pc = "commit"
    /\ ~raises => stored
    /\ feedback' = IF stored THEN feedback \cup {submit.feedback_id} ELSE feedback
    /\ submit' = IF raises THEN on_exception(submit)
                 ELSE [submit EXCEPT !.pc = "release"]
    /\ UNCHANGED feedback_seq
    /\ UNCHANGED <<orch_vars, gw_vars, store_vars, ext_vars, chat_vars, batch_vars>>

\* Leaving db_pool.acquire(): the connection is released, and the
\* JSONResponse with feedback_id is returned.
submit_release(raises) ==
    /\ submit.pc = "release"
    /\ submit' = IF raises THEN on_exception(submit)
                 ELSE [submit EXCEPT !.pc = "done", !.status = 200,
                                     !.ack = submit.feedback_id]
    /\ UNCHANGED <<feedback, feedback_seq>>
    /\ UNCHANGED <<orch_vars, gw_vars, store_vars, ext_vars, chat_vars, batch_vars>>

\* The response is sent; the next request can arrive.
submit_respond ==
    /\ submit.pc = "done"
    /\ submit' = SubmitIdle
    /\ UNCHANGED <<feedback, feedback_seq>>
    /\ UNCHANGED <<orch_vars, gw_vars, store_vars, ext_vars, chat_vars, batch_vars>>

InitSubmitIdle ==
    /\ feedback = {}
    /\ feedback_seq = 0
    /\ submit = SubmitIdle

(***************************************************************************)
(* Chat: chat_with_documents behind cleanup_middleware, and                *)
(* delete_chat_session.  chat_history_cache maps a session id to the       *)
(* conversation_context stored for it (a turn is taken by its role);       *)
(* chat_history is the set of session ids with a row in table              *)
(* chat_history, whose columns hold what the cache held when the row was   *)
(* written.  Session ids are numbered in the order generate_session_id     *)
(* issued them, and a client names an id that was issued.  The handler     *)
(* runs without interruption between two awaits; its steps before the      *)
(* external call are split at the call of retrieve_relevant_chunks only,   *)
(* and nothing else runs between them.  latency_log only grows and is left *)
(* out.                                                                    *)
(***************************************************************************)
rag_k == 3            \* retrieve_relevant_chunks(query, k=3)
randint_high == 10    \* random.randint(1, 10) == 1

NoSession == <<"none">>

Roles == {"user", "assistant"}

\* request.conversation_context: any list of turns the client sends.
Contexts == UNION {[1..n -> Roles] : n \in 0..MaxContext}

NoContext == [kind |-> "none", docs |-> {}]

Chat(at, session_id, document_ids, rag_context, status, client) ==
    [pc |-> at, session_id |-> session_id, document_ids |-> document_ids,
     rag_context |-> rag_context, status |-> status, client |-> client]

ChatIdle == Chat("idle", 0, {}, NoContext, 0, 0)

\* request.document_ids: none, or one id of an analysed document.
DocumentIdSets == {{}} \cup {{d} : d \in 1..MaxDocs}

\* POST /api/chat arrives: the key check (HTTPException 400), the session
\* id (the request's, or a generated one), and the branch on document_ids.
\* named is request.session_id (0: none).
chat_with_documents(key, named, document_ids) ==
    /\ chat.pc = "idle"
    /\ rag_result = NoQuery
    /\ named \in 0..sessions
    /\ named = 0 => sessions < MaxSessions
    /\ IF get_api_key(key) = ""
       THEN /\ chat' = Chat("done", named, document_ids, NoContext, 400, 0)
            /\ UNCHANGED sessions
       ELSE /\ sessions' = IF named = 0 THEN sessions + 1 ELSE sessions
            /\ chat' = Chat(IF document_ids # {} THEN "rag" ELSE "answer",
                            IF named = 0 THEN sessions' ELSE named,
                            document_ids, NoContext, 0, 0)
    /\ UNCHANGED <<chat_history_cache, chat_history>>
    /\ UNCHANGED <<orch_vars, gw_vars, store_vars, ext_vars, submit_vars, batch_vars>>

\* rag_pipeline.get_rag_context(query, max_context_length=2000) calls
\* retrieve_relevant_chunks(query, k=3) over the index as it is; a row is
\* similar to the query (MaxScore) or not (0).
chat_retrieve ==
    /\ chat.pc = "rag"
    /\ rag_result = NoQuery
    /\ \E sims \in [1..(IF index_ready THEN document_vectors.rows ELSE 0) -> {0, MaxScore}] :
         \E order \in argsort(sims) :
           \E raises \in BOOLEAN :
             retrieve_relevant_chunks(rag_k, sims, order, raises)

\* The documents whose chunks get_rag_context puts into the context: the
\* first take results, whatever document they were cut from.
context_docs(results, take) ==
    {results[i].metadata.document_id : i \in 1..take}

\* The loop of get_rag_context takes the results in order until one does
\* not fit into max_context_length (take of them fit); with an empty
\* context the handler falls back to the cached text of the named documents.
chat_context(take) ==
    /\ chat.pc = "rag"
    /\ rag_result # NoQuery
    /\ take \in 0..Len(rag_result.results)
    /\ LET retrieved == context_docs(rag_result.results, take)
           cached == chat.document_ids \cap document_cache
       IN chat' = [chat EXCEPT
                     !.pc = "answer",
                     !.rag_context =
                        IF take > 0 THEN [kind |-> "retrieved", docs |-> retrieved]
                        ELSE IF cached # {} THEN [kind |-> "cache", docs |-> cached]
                        ELSE NoContext]
    /\ rag_result' = NoQuery
    /\ UNCHANGED <<chat_history_cache, chat_history, sessions>>
    /\ UNCHANGED <<sklearn_installed, DEFAULT_API_KEY, sklearn_loaded, is_initialized,
                   vectorizer, document_vectors, chunks, chunk_metadata,
                   document_cache, documents, http>>
    /\ UNCHANGED <<orch_vars, gw_vars, store_vars, chunker_vars, cycle_vars, submit_vars,
                   batch_vars>>

\* conversation_context = request.conversation_context or [], then the two
\* appends; the result replaces chat_history_cache[session_id].
store_turns(conversation_context) ==
    conversation_context \o <<"user", "assistant">>

\* The external call returns (or raises: except Exception, HTTPException
\* 500); the turns are appended and the session is cached.
chat_answer(conversation_context, raises) ==
    /\ chat.pc = "answer"
    /\ IF raises
       THEN /\ chat' = [chat EXCEPT !.pc = "done", !.status = 500]
            /\ UNCHANGED chat_history_cache
       ELSE /\ chat_history_cache' =
                 [chat_history_cache EXCEPT ![chat.session_id] =
                     store_turns(conversation_context)]
            /\ chat' = IF db_pool THEN [chat EXCEPT !.pc = "save"]
                       ELSE [chat EXCEPT !.pc = "done", !.status = 200]
    /\ UNCHANGED <<chat_history, sessions>>
    /\ UNCHANGED <<orch_vars, gw_vars, store_vars, ext_vars, submit_vars, batch_vars>>

\* INSERT INTO chat_history ... ON CONFLICT (session_id) DO UPDATE; a
\* failure is logged and the response is returned all the same.
chat_save(raises) ==
    /\ chat.pc = "save"
    /\ chat_history' = IF raises THEN chat_history
                       ELSE chat_history \cup {chat.session_id}
    /\ chat' = [chat EXCEPT !.pc = "done", !.status = 200]
    /\ UNCHANGED <<chat_history_cache, sessions>>
    /\ UNCHANGED <<orch_vars, gw_vars, store_vars, ext_vars, submit_vars, batch_vars>>

\* cleanup_middleware after call_next: document_cache and chat_history_cache
\* are assigned in the function and not declared global, so both names are
\* local to it; on the trim branch len(document_cache) reads the unbound
\* local and raises UnboundLocalError, which the server answers with 500.
cleanup_middleware(roll) ==
    /\ chat.pc = "done"
    /\ chat' = [chat EXCEPT !.pc = "sent",
                            !.client = IF roll = 1 THEN 500 ELSE chat.status]
    /\ UNCHANGED <<chat_history_cache, chat_history, sessions>>
    /\ UNCHANGED <<orch_vars, gw_vars, store_vars, ext_vars, submit_vars, batch_vars>>

\* The client has the response; the next request can arrive.
chat_sent ==
    /\ chat.pc = "sent"
    /\ chat' = ChatIdle
    /\ UNCHANGED <<chat_history_cache, chat_history, sessions>>
    /\ UNCHANGED <<orch_vars, gw_vars, store_vars, ext_vars, submit_vars, batch_vars>>

\* DELETE /api/chat/{session_id}: the cache entry goes, then the row; a
\* failing DELETE leaves the row.  It runs while no chat handler is between
\* two of its steps.
delete_chat_session(session_id, raises) ==
    /\ chat.pc \in {"idle", "answer", "save"}
    /\ session_id \in 1..sessions
    /\ raises => db_pool
    /\ chat_history_cache' = [chat_history_cache EXCEPT ![session_id] = NoSession]
    /\ chat_history' = IF db_pool /\ ~raises THEN chat_history \ {session_id}
                       ELSE chat_history
    /\ UNCHANGED <<chat, sessions>>
    /\ UNCHANGED <<orch_vars, gw_vars, store_vars, ext_vars, submit_vars, batch_vars>>

InitChatIdle ==
    /\ chat_history_cache = [s \in 1..MaxSessions |-> NoSession]
    /\ chat_history = {}
    /\ sessions = 0
    /\ chat = ChatIdle

(***************************************************************************)
(* Batch analysis: analyze_policy_files, one loop iteration per step (each *)
(* iteration awaits).  An uploaded file is taken by its content type, a    *)
(* URL by nothing but its place in the list; what reading, downloading and *)
(* extracting give is chosen when the iteration runs.  The analysis of a   *)
(* document is the orchestrator's work and is awaited within the           *)
(* iteration; it returns a string for every text.                          *)
(***************************************************************************)
ContentTypes == {"application/pdf", "text/plain"}

\* request.files and request.storj_urls
FileLists == UNION {[1..n -> ContentTypes] : n \in 0..MaxFiles}

NoAnalyses == <<>>

Batch(at, files, urls, i, analyses, successful_analyses, failed_analyses, status, total_files) ==
    [pc |-> at, files |-> files, urls |-> urls, i |-> i, analyses |-> analyses,
     successful_analyses |-> successful_analyses,
     failed_analyses |-> failed_analyses, status |-> status,
     total_files |-> total_files]

BatchIdle == Batch("idle", <<>>, 0, 0, NoAnalyses, 0, 0, 0, 0)

\* Where the handler goes after item i of the files, or of the URLs.
after_files(b) ==
    IF b.i < Len(b.files) THEN [b EXCEPT !.i = b.i + 1]
    ELSE IF b.urls > 0 THEN [b EXCEPT !.pc = "urls", !.i = 1]
    ELSE [b EXCEPT !.pc = "return"]

after_urls(b) ==
    IF b.i < b.urls THEN [b EXCEPT !.i = b.i + 1]
    ELSE [b EXCEPT !.pc = "return"]

\* POST /api/analyze/files arrives: the two input checks (HTTPException
\* 400), then the counters.
analyze_policy_files(key, files, urls) ==
    /\ batch.pc = "idle"
    /\ batch' =
          IF get_api_key(key) = "" \/ (Len(files) = 0 /\ urls = 0)
          THEN Batch("done", files, urls, 0, NoAnalyses, 0, 0, 400, 0)
          ELSE IF Len(files) > 0
               THEN Batch("files", files, urls, 1, NoAnalyses, 0, 0, 0, 0)
               ELSE Batch("urls", files, urls, 1, NoAnalyses, 0, 0, 0, 0)
    /\ UNCHANGED <<orch_vars, gw_vars, store_vars, ext_vars, submit_vars, chat_vars>>

\* continue after failed_analyses += 1: nothing is appended to analyses.
item_skipped(b) ==
    [b EXCEPT !.failed_analyses = b.failed_analyses + 1]

\* except Exception: an entry with success False is appended.
item_raised(b) ==
    [b EXCEPT !.failed_analyses = b.failed_analyses + 1,
              !.analyses = Append(b.analyses, [success |-> FALSE])]

\* The document was analysed: an entry with success True is appended.
item_analysed(b) ==
    [b EXCEPT !.successful_analyses = b.successful_analyses + 1,
              !.analyses = Append(b.analyses, [success |-> TRUE])]

\* The extracted text is cached and indexed (setup_rag_for_document): n
\* retrieval chunks, fit the outcome of the re-fit.
index_document(n, fit) ==
    /\ documents < MaxDocs
    /\ Len(chunks) + n <= MaxCorpus
    /\ fit \in fit_transform(Len(chunks) + n)
    /\ documents' = documents + 1
    /\ document_cache' = document_cache \cup {documents'}
    /\ add_document(documents', n, fit)

\* One iteration of `for file in request.files`: outcome is what the body
\* meets ("raised": file.read() or a later call raises before the document
\* id is generated).
process_file(outcome, n, fit) ==
    /\ batch.pc = "files"
    /\ rag_result = NoQuery
    /\ IF batch.files[batch.i] # "application/pdf"
       THEN /\ batch' = after_files(item_skipped(batch))
            /\ UNCHANGED <<sklearn_loaded, is_initialized, vectorizer, document_vectors,
                           chunks, chunk_metadata, document_cache, documents>>
       ELSE IF outcome = "extraction failed"
       THEN /\ batch' = after_files(item_skipped(batch))
            /\ UNCHANGED <<sklearn_loaded, is_initialized, vectorizer, document_vectors,
                           chunks, chunk_metadata, document_cache, documents>>
       ELSE IF outcome = "raised"
       THEN /\ batch' = after_files(item_raised(batch))
            /\ UNCHANGED <<sklearn_loaded, is_initialized, vectorizer, document_vectors,
                           chunks, chunk_metadata, document_cache, documents>>
       ELSE /\ index_document(n, fit)
            /\ batch' = after_files(item_analysed(batch))
    /\ UNCHANGED <<sklearn_installed, DEFAULT_API_KEY, rag_result, http>>
    /\ UNCHANGED <<orch_vars, gw_vars, store_vars, chunker_vars, cycle_vars,
                   submit_vars, chat_vars>>

\* One iteration of `for url in request.storj_urls`; download_from_storj_url
\* raises HTTPException for every failed download.
process_url(outcome, n, fit) ==
    /\ batch.pc = "urls"
    /\ rag_result = NoQuery
    /\ IF outcome = "extraction failed"
       THEN /\ batch' = after_urls(item_skipped(batch))
            /\ UNCHANGED <<sklearn_loaded, is_initialized, vectorizer, document_vectors,
                           chunks, chunk_metadata, document_cache, documents>>
       ELSE IF outcome = "raised"
       THEN /\ batch' = after_urls(item_raised(batch))
            /\ UNCHANGED <<sklearn_loaded, is_initialized, vectorizer, document_vectors,
                           chunks, chunk_metadata, document_cache, documents>>
       ELSE /\ index_document(n, fit)
            /\ batch' = after_urls(item_analysed(batch))
    /\ UNCHANGED <<sklearn_installed, DEFAULT_API_KEY, rag_result, http>>
    /\ UNCHANGED <<orch_vars, gw_vars, store_vars, chunker_vars, cycle_vars,
                   submit_vars, chat_vars>>

\* return JSONResponse(...): total_files is len(analyses).
batch_return ==
    /\ batch.pc = "return"
    /\ batch' = [batch EXCEPT !.pc = "done", !.status = 200,
                              !.total_files = Len(batch.analyses)]
    /\ UNCHANGED <<orch_vars, gw_vars, store_vars, ext_vars, submit_vars, chat_vars>>

\* The response is sent; the next request can arrive.
batch_respond ==
    /\ batch.pc = "done"
    /\ batch' = BatchIdle
    /\ UNCHANGED <<orch_vars, gw_vars, store_vars, ext_vars, submit_vars, chat_vars>>

InitBatchIdle == batch = BatchIdle

InitLateIdle == InitSubmitIdle /\ InitChatIdle /\ InitBatchIdle

InitExtIdle == InitRagIdle /\ InitChunkerIdle /\ InitCycleIdle /\ InitLateIdle

InitStoreIdle ==
    /\ db_pool = FALSE
    /\ prompt_improvements = <<>>
    /\ req = [p \in Requests |-> ReqIdle]
    /\ usage_updates = 0

InitOrch ==
    /\ pc = "idle"
    /\ api_key = ""
    /\ n_chunks = 0
    /\ tasks = <<>>
    /\ pool_queue = <<>>
    /\ pool_running = {}
    /\ batch_i = 0
    /\ all_results = <<>>
    /\ aux_future = NoFuture
    /\ report = [form |-> "none", sections |-> <<>>, tail |-> <<>>]
    /\ others = 0

Init == InitOrch /\ gw = GwIdle /\ InitStoreIdle /\ InitExtIdle

Next ==
    \/ \E short \in BOOLEAN, n \in 0..MaxChunks, key \in ApiKeys \ {""} :
          analyze_large_document_fast(short, n, key)
    \/ submit_chunk
    \/ worker_start
    \/ \E item \in pool_running : worker_finish(item)
    \/ submit_other
    \/ gather_batch
    \/ cooldown
    \/ join_sections
    \/ return_single
    \/ return_synthesis

Spec == Init /\ [][Next]_vars

(***************************************************************************)
(* Claims about the orchestrator (Spec).                                   *)
(***************************************************************************)
Chunked == report.form \in {"sections", "sections+summary"}

Failed(r) == r.kind \in {"sentinel", "exception"}

FailedPositions == { p \in 0..(n_chunks - 1) : Failed(tasks[p + 1].result) }

SectionSources == { report.sections[k].body.src : k \in 1..Len(report.sections) }

\* C1: in a finished chunked analysis the sections of the report appear in
\* increasing original chunk position.
C1_SectionsInPositionOrder ==
    (pc = "done" /\ Chunked) =>
        \A k, l \in 1..Len(report.sections) :
            k < l => report.sections[k].body.src < report.sections[l].body.src

\* C1 witness: a finished report whose sections span more than one batch.
C1_Witness ==
    /\ pc = "done"
    /\ Chunked
    /\ Len(report.sections) > batch_size

\* C2 (as claimed): a chunk whose call failed, by exception or by sentinel
\* string, has no section in the report, every successful chunk has one, and
\* with exactly one failure among n > 1 chunks there are n - 1 sections.
C2_FailedChunksDropped ==
    (pc = "done" /\ Chunked) =>
        /\ \A p \in 0..(n_chunks - 1) :
              (p \in SectionSources) <=> (p \notin FailedPositions)
        /\ (n_chunks > 1 /\ Cardinality(FailedPositions) = 1) =>
              Len(report.sections) = n_chunks - 1

\* C3 (as claimed): when every chunk call of a chunked document failed, the
\* analysis returns an explicit all-chunks-failed outcome, never a report.
C3_TotalFailureExplicit ==
    (pc = "done" /\ n_chunks >= 1 /\ Cardinality(FailedPositions) = n_chunks) =>
        report.form = "all_chunks_failed"

\* C5 (as claimed): a call is handed to the pool only when its batch is the
\* one being gathered: every call of the earlier batches has completed and the
\* cooldown after them has elapsed.
C5_BatchDispatch ==
    \A p \in 0..(Len(tasks) - 1) :
        /\ p < batch_i + batch_size
        /\ \A q \in 0..(Len(tasks) - 1) : q < batch_i => tasks[q + 1].state = "finished"

\* C6: at most batch_size chunk-analysis calls execute at any instant.
C6_PeakConcurrency ==
    Cardinality({ item \in pool_running : item.kind = "chunk" }) <= batch_size

\* C6 witness: more than batch_size chunk calls are outstanding while one
\* executes.
C6_Witness ==
    /\ \E item \in pool_running : item.kind = "chunk"
    /\ Cardinality({ p \in 0..(Len(tasks) - 1) : tasks[p + 1].state # "finished" })
          > batch_size

\* The calls of one kind handed to the pool and not yet finished.
Issued(kind) ==
    Len(SelectSeq(pool_queue, LAMBDA item : item.kind = kind))
      + Cardinality({ item \in pool_running : item.kind = kind })

AuxFinished == IF aux_future.state = "finished" THEN 1 ELSE 0

\* C23: a short document is one call and no chunk; for a long one the
\* synthesis call is made exactly when there are more than three chunks,
\* once, after every chunk call has finished, and its result follows the
\* sections in the report.
C23_SingleCallOrSynthesisOnce ==
    /\ (pc = "await_single" \/ report.form = "direct") =>
          /\ n_chunks = 0 /\ tasks = <<>> /\ all_results = <<>>
          /\ Issued("chunk") = 0 /\ Issued("synthesis") = 0
          /\ Issued("single") + AuxFinished = 1
    /\ (pc # "await_single" /\ report.form # "direct") => Issued("single") = 0
    /\ (pc = "await_synthesis" \/ report.form = "sections+summary") =>
          /\ n_chunks > small_chunk_count
          /\ Len(tasks) = n_chunks
          /\ \A p \in 1..Len(tasks) : tasks[p].state = "finished"
          /\ Issued("chunk") = 0
          /\ Issued("synthesis") + AuxFinished = 1
    /\ pc \notin {"await_synthesis", "done", "raised"} => Issued("synthesis") = 0
    /\ (pc = "done" /\ Chunked) =>
          /\ report.form = "sections+summary" <=> n_chunks > small_chunk_count
          /\ report.form = "sections" => (aux_future = NoFuture /\ report.tail = <<>>)
          /\ report.form = "sections+summary" => report.tail = <<aux_future.result>>

\* C23 witness: a finished report of more than three sections with its
\* executive summary.
C23_Witness ==
    /\ pc = "done"
    /\ report.form = "sections+summary"
    /\ Len(report.sections) > small_chunk_count

InitGateway == InitOrch /\ gw = GwIdle /\ InitStoreIdle /\ InitExtIdle

NextGateway ==
    \/ \E k \in ApiKeys, r \in 0..MaxRetriesArg : gw_call(k, r)
    \/ \E resp \in ResponsesFor(0) : gw_attempt(resp)

SpecGateway == InitGateway /\ [][NextGateway]_vars

InitStore ==
    /\ InitOrch
    /\ gw = GwIdle
    /\ InitExtIdle
    /\ db_pool \in BOOLEAN
    /\ prompt_improvements = <<>>
    /\ req = [p \in Requests |-> ReqIdle]
    /\ usage_updates = 0

NextStore ==
    \/ \E text \in PromptAdditions : create_improved_prompt_entry(text)
    \/ \E i \in 1..MaxRows, active \in BOOLEAN : set_active(i, active)
    \/ \E p \in Requests : analyze_select(p)
    \/ \E p \in Requests : analyze_update(p)
    \/ \E p \in Requests : analyze_return(p)

SpecStore == InitStore /\ [][NextStore]_vars

(***************************************************************************)
(* The store under an unbounded stream of analyses (SpecFair).  The SELECT *)
(* orders rows by usage_count and the UPDATE adds 1, so only the           *)
(* differences between the usage counts matter; here the table keeps the   *)
(* counts relative to the least-used row, which makes the run finite-state *)
(* without stopping the requests.                                          *)
(***************************************************************************)
MinUsage(rows) ==
    CHOOSE m \in { rows[i].usage_count : i \in RowIds(rows) } :
        \A i \in RowIds(rows) : m <= rows[i].usage_count

Rebase(rows) ==
    IF rows = <<>> THEN rows
    ELSE [i \in RowIds(rows) |->
            [rows[i] EXCEPT !.usage_count = rows[i].usage_count - MinUsage(rows)]]

\* analyze_update with the counts kept relative.
analyze_update_relative(p) ==
    /\ req[p].pc = "selected"
    /\ prompt_improvements' =
          Rebase(update_usage_count(prompt_improvements, req[p].improved_prompt))
    /\ req' = [req EXCEPT ![p].pc = "enhanced"]
    /\ UNCHANGED <<db_pool, usage_updates>>
    /\ UNCHANGED <<orch_vars, gw_vars, ext_vars, late_vars>>

InitFair ==
    /\ InitOrch
    /\ gw = GwIdle
    /\ InitExtIdle
    /\ db_pool = TRUE
    /\ prompt_improvements = <<>>
    /\ req = [p \in Requests |-> ReqIdle]
    /\ usage_updates = 0

NextFair ==
    \/ \E text \in PromptAdditions : create_improved_prompt_entry(text)
    \/ \E p \in Requests : analyze_select(p)
    \/ \E p \in Requests : analyze_update_relative(p)
    \/ \E p \in Requests : analyze_return(p)

\* The event loop runs every request that can take a step, and requests keep
\* arriving.
FairRequests ==
    \A p \in Requests :
        /\ WF_vars(analyze_select(p))
        /\ WF_vars(analyze_update_relative(p))
        /\ WF_vars(analyze_return(p))

SpecFair == InitFair /\ [][NextFair]_vars /\ FairRequests

(***************************************************************************)
(* Claims about the improvement store (SpecStore, SpecFair).               *)
(***************************************************************************)
Selects(p) == req[p].pc = "idle" /\ req'[p].pc # "idle"

Updates(p) == req[p].pc = "selected" /\ req'[p].pc = "enhanced"

\* C7: a select returns an active improvement whose usage count is minimal
\* among the active ones and, among those of minimal usage, the most recently
\* created; it returns nothing exactly when no improvement is active.
C7_SelectLeastUsedNewest ==
    [][\A p \in Requests :
        Selects(p) =>
            LET rows == prompt_improvements
                act == IF db_pool THEN ActiveIds(rows) ELSE {}
                i == req'[p].row
            IN IF act = {}
               THEN req'[p].pc = "fallback"
               ELSE /\ req'[p].pc = "selected"
                    /\ i \in act
                    /\ req'[p].improved_prompt = rows[i].improved_prompt
                    /\ \A j \in act :
                          /\ rows[i].usage_count <= rows[j].usage_count
                          /\ rows[i].usage_count = rows[j].usage_count =>
                                rows[i].created_at >= rows[j].created_at]_vars

\* C7 witness: a request holds a selected improvement A while a more recently
\* created active improvement B has a higher usage count.
C7_Witness ==
    \E p \in Requests :
        /\ req[p].pc = "selected"
        /\ \E j \in ActiveIds(prompt_improvements) :
              /\ j > req[p].row
              /\ prompt_improvements[j].usage_count >
                    prompt_improvements[req[p].row].usage_count

\* C8 (as claimed): the request that found an improvement runs with that
\* improvement's text appended to its prompt, and its UPDATE adds exactly 1 to
\* the usage count of the selected improvement and changes no other row.
C8_OnlySelectedRowCounted ==
    [][\A p \in Requests :
        Updates(p) =>
            /\ req'[p].prompt =
                  <<"prompt_context", prompt_improvements[req[p].row].improved_prompt>>
            /\ \A i \in RowIds(prompt_improvements) :
                  prompt_improvements'[i].usage_count =
                      prompt_improvements[i].usage_count
                          + (IF i = req[p].row THEN 1 ELSE 0)]_vars

RECURSIVE SumUsage(_)
SumUsage(rows) ==
    IF rows = <<>> THEN 0 ELSE Head(rows).usage_count + SumUsage(Tail(rows))

\* C9 (as claimed): the usage counts add up to the number of requests that
\* selected an improvement and recorded its use; no increment is lost and
\* none is added.
C9_UsageSumCountsRequests ==
    SumUsage(prompt_improvements) = usage_updates

Selected(i) == \E p \in Requests : req[p].pc = "selected" /\ req[p].row = i

\* C10 (as claimed): under an unbounded stream of analyses every improvement
\* of the table is selected again and again.
C10_EveryImprovementSelectedAgain ==
    \A i \in 1..MaxRows :
        [](i \in RowIds(prompt_improvements) => <>Selected(i))

\* posts made by the call so far
GwPosts == Len(gw.history)

FirstSuccess(h) ==
    IF \E k \in 1..Len(h) : IsSuccess(h[k])
    THEN CHOOSE k \in 1..Len(h) : IsSuccess(h[k]) /\ \A j \in 1..(k-1) : ~IsSuccess(h[j])
    ELSE 0

\* C4: with a non-empty key the call makes at most max_retries + 1 posts, a
\* returned call whose posts include a success returns the text of that
\* success, which is its last post (no attempt follows the first success),
\* and a call whose max_retries + 1 posts all failed returns a sentinel
\* string; it never raises.
C4_GatewayBoundedRetries ==
    gw.api_key # "" =>
        /\ GwPosts <= gw.max_retries + 1
        /\ gw.pc # "raised"
        /\ FirstSuccess(gw.history) # 0 =>
              /\ FirstSuccess(gw.history) = GwPosts
              /\ gw.pc = "returned"
              /\ gw.result.kind = "text"
              /\ gw.result.val = <<"candidate", gw.history[GwPosts].text>>
        /\ (gw.pc = "returned" /\ FirstSuccess(gw.history) = 0) =>
              /\ gw.result.kind = "sentinel"
              /\ GwPosts = gw.max_retries + 1
        /\ (gw.pc = "loop") => GwPosts <= gw.max_retries

\* C4 witness: a call that retried a failure and then returned a candidate.
C4_Witness ==
    /\ gw.api_key # ""
    /\ gw.pc = "returned"
    /\ GwPosts >= 2
    /\ gw.result.kind = "text"

(***************************************************************************)
(* The retrieval index under any sequence of startup, analyze requests and *)
(* queries (SpecRag).                                                      *)
(***************************************************************************)
InitRag ==
    /\ InitOrch
    /\ gw = GwIdle
    /\ InitStoreIdle
    /\ InitChunkerIdle
    /\ InitCycleIdle
    /\ InitLateIdle
    /\ sklearn_installed \in BOOLEAN
    /\ DEFAULT_API_KEY \in ApiKeys
    /\ sklearn_loaded = FALSE
    /\ is_initialized = FALSE
    /\ vectorizer = NoVectorizer
    /\ document_vectors = NoVectors
    /\ chunks = <<>>
    /\ chunk_metadata = <<>>
    /\ rag_result = NoQuery
    /\ document_cache = {}
    /\ documents = 0
    /\ http = HttpNone

NextRag ==
    \/ enhanced_startup_event
    \/ \E request \in AnalyzeRequests, fit \in {"ok", "ValueError"} :
          analyze_policy_text(request, fit)
    \/ query
    \/ get_rag_context_return

SpecRag == InitRag /\ [][NextRag]_vars

(***************************************************************************)
(* Claims about the retrieval index (SpecRag).                             *)
(***************************************************************************)
\* C11: whenever the vector model is available, after add_document returns
\* document_vectors has one row per chunk of the corpus and chunk_metadata
\* one entry per chunk, also when fit_transform raised during the call.
C11_IndexCoversCorpus ==
    vectorizer.present =>
        /\ Len(chunk_metadata) = Len(chunks)
        /\ document_vectors.rows = Len(chunks)

\* The rows of the similarity vector that a query's result leaves out.
LeftOut(q) == DOMAIN q.sims \ { q.results[i].idx : i \in DOMAIN q.results }

\* C12: a query returns at most k results, each scoring above the relevance
\* threshold, in non-increasing order of score, each a different row with
\* that row's score, and no row left out scores higher than a returned one.
C12_TopKAboveThreshold ==
    rag_result.kind = "returned" =>
        LET r == rag_result.results IN
        /\ Len(r) <= rag_result.k
        /\ \A i \in DOMAIN r :
              /\ r[i].idx \in DOMAIN rag_result.sims
              /\ r[i].score = rag_result.sims[r[i].idx]
              /\ r[i].score > relevance_threshold
        /\ \A i, j \in DOMAIN r : i < j => r[i].score >= r[j].score /\ r[i].idx # r[j].idx
        /\ \A row \in LeftOut(rag_result) : \A i \in DOMAIN r :
              rag_result.sims[row] <= r[i].score

\* A query over three rows with k = 2 that returned two chunks and left out
\* a row that also scores above the threshold.
C12_Witness ==
    /\ rag_result.kind = "returned"
    /\ rag_result.why = "scored"
    /\ rag_result.k = 2
    /\ Len(rag_result.results) = 2
    /\ \E row \in LeftOut(rag_result) : rag_result.sims[row] > relevance_threshold

\* C13: every call of retrieve_relevant_chunks returns; it returns the empty
\* list when sklearn is not loaded, when nothing is indexed, when the
\* scoring raises and when no row scores above the threshold.
C13_QueryNeverRaises ==
    [][ (rag_result = NoQuery /\ rag_result' # NoQuery) =>
          /\ rag_result'.kind = "returned"
          /\ ( \/ ~sklearn_loaded
               \/ ~vectorizer.present
               \/ ~document_vectors.present
               \/ rag_result'.why = "scoring"
               \/ \A row \in DOMAIN rag_result'.sims :
                     rag_result'.sims[row] <= relevance_threshold )
             => rag_result'.results = <<>> ]_vars

\* A query on a fitted index whose scoring raised and which returned [].
C13_Witness ==
    /\ rag_result.kind = "returned"
    /\ rag_result.why = "scoring"
    /\ rag_result.results = <<>>
    /\ rag_result.rows > 0

C20_InvalidInputRejected ==
    [][ (http' # http /\ (http'.empty \/ http'.no_key)) =>
          /\ http'.status = 400
          /\ ~http'.analysis
          /\ UNCHANGED <<document_cache, documents, sklearn_loaded, is_initialized,
                         vectorizer, document_vectors, chunks, chunk_metadata>> ]_vars

\* A request without any API key, with text, rejected when the index already
\* holds chunks.
C20_Witness ==
    /\ http.status = 400
    /\ http.no_key /\ ~http.empty
    /\ Len(chunks) > 0

(***************************************************************************)
(* smart_chunk_text applied to every text of Texts (SpecChunker).          *)
(***************************************************************************)
InitChunker ==
    /\ InitOrch
    /\ gw = GwIdle
    /\ InitStoreIdle
    /\ InitRagIdle
    /\ InitCycleIdle
    /\ InitLateIdle
    /\ \E text \in Texts : chunker = ChunkerIdle(text)

NextChunker == chunk_document

SpecChunker == InitChunker /\ [][NextChunker]_vars

(***************************************************************************)
(* Claims about the chunker (SpecChunker).                                 *)
(***************************************************************************)
\* C17: for a text of length at most max_chunk_size, smart_chunk_text returns
\* the one-element list holding the whole text.
C17_ShortTextOneChunk ==
    (chunker.called /\ TextLen(chunker.text.pieces) <= max_chunk_size) =>
        chunker.chunks = <<TextChunk(1, Len(chunker.text.pieces),
                                     TextLen(chunker.text.pieces))>>

\* A text of several pieces below the maximum size, with a table of contents,
\* a heading and an empty first piece, returned whole.
C17_Witness ==
    /\ chunker.called
    /\ TextLen(chunker.text.pieces) <= max_chunk_size
    /\ chunker.text.toc
    /\ Len(chunker.text.pieces) > 1
    /\ chunker.text.pieces[1].len = 0
    /\ \E i \in DOMAIN chunker.text.pieces : chunker.text.pieces[i].heading
    /\ Len(chunker.chunks) = 1

\* C18: for a text longer than max_chunk_size, every returned chunk is at
\* most max_chunk_size long, unless it is a single paragraph that is itself
\* longer than max_chunk_size.
C18_ChunksWithinMaxSize ==
    (chunker.called /\ TextLen(chunker.text.pieces) > max_chunk_size) =>
        \A c \in DOMAIN chunker.chunks :
            \/ chunker.chunks[c].len <= max_chunk_size
            \/ /\ chunker.chunks[c].from = chunker.chunks[c].to
               /\ PieceLen(chunker.text.pieces[chunker.chunks[c].from]) > max_chunk_size

\* The non-empty pieces of a text that lie in no returned chunk, and those
\* that lie in more than one.
Dropped(ck) ==
    { i \in DOMAIN ck.text.pieces :
        /\ ck.text.pieces[i].len > 0
        /\ ~\E c \in DOMAIN ck.chunks : ck.chunks[c].from <= i /\ i <= ck.chunks[c].to }

Duplicated(ck) ==
    { i \in DOMAIN ck.text.pieces :
        \E c, d \in DOMAIN ck.chunks :
            /\ c # d
            /\ ck.chunks[c].from <= i /\ i <= ck.chunks[c].to
            /\ ck.chunks[d].from <= i /\ i <= ck.chunks[d].to }

\* C19: the returned chunks hold every paragraph of the text once and in the
\* order of the text; none is dropped, none is duplicated, and the last
\* buffer is returned as the last chunk.
C19_EveryParagraphOnceInOrder ==
    chunker.called =>
        /\ Dropped(chunker) = {}
        /\ Duplicated(chunker) = {}
        /\ \A c, d \in DOMAIN chunker.chunks :
              c < d => chunker.chunks[c].to < chunker.chunks[d].from

(***************************************************************************)
(* The feedback cycle run by the scheduler (SpecCycle), and the same with  *)
(* the scheduler running forever (SpecCycleFair).  In SpecCycleFair the    *)
(* table keeps its newest MaxRows rows only, which bounds the state        *)
(* without stopping the cycles; no step of the cycle reads the table.      *)
(***************************************************************************)
InitCycle ==
    /\ InitOrch
    /\ gw = GwIdle
    /\ InitRagIdle
    /\ InitChunkerIdle
    /\ InitLateIdle
    /\ db_pool \in BOOLEAN
    /\ prompt_improvements = <<>>
    /\ req = [p \in Requests |-> ReqIdle]
    /\ usage_updates = 0
    /\ improvement_engine = db_pool
    /\ scheduler = SchedulerStart

NextCycle ==
    \/ scheduler_tick
    \/ \E raises \in BOOLEAN, patterns \in Patterns :
          analyze_feedback_patterns(raises, patterns)
    \/ generate_improvements
    \/ \E raises \in BOOLEAN : apply_automatic_improvements(raises)
    \/ apply_return
    \/ \E raises \in BOOLEAN : update_performance_metrics(raises)
    \/ sleep_elapsed

SpecCycle == InitCycle /\ [][NextCycle]_vars

\* The newest MaxRows rows, created_at renumbered from 1.
Newest(rows) ==
    IF Len(rows) <= MaxRows THEN rows
    ELSE [i \in 1..MaxRows |->
            [rows[i + Len(rows) - MaxRows] EXCEPT !.created_at = i]]

\* apply_automatic_improvements on the table of newest rows.
apply_automatic_improvements_newest(raises) ==
    /\ scheduler.pc = "apply"
    /\ scheduler.i <= Len(scheduler.improvements)
    /\ apply_step(raises, Newest(insert_improvement(prompt_improvements,
                                                    scheduler.improvements[scheduler.i])))
    /\ UNCHANGED <<improvement_engine, db_pool, req, usage_updates>>
    /\ UNCHANGED <<orch_vars, gw_vars, rag_vars, chunker_vars, late_vars>>

NextCycleFair ==
    \/ scheduler_tick
    \/ \E raises \in BOOLEAN, patterns \in Patterns :
          analyze_feedback_patterns(raises, patterns)
    \/ generate_improvements
    \/ \E raises \in BOOLEAN : apply_automatic_improvements_newest(raises)
    \/ apply_return
    \/ \E raises \in BOOLEAN : update_performance_metrics(raises)
    \/ sleep_elapsed

\* The event loop resumes the scheduler task whenever the call or the sleep
\* it awaits is over, and every awaited call and sleep ends.
FairScheduler ==
    /\ WF_vars(scheduler_tick)
    /\ WF_vars(\E raises \in BOOLEAN, patterns \in Patterns :
                  analyze_feedback_patterns(raises, patterns))
    /\ WF_vars(generate_improvements)
    /\ WF_vars(\E raises \in BOOLEAN : apply_automatic_improvements_newest(raises))
    /\ WF_vars(apply_return)
    /\ WF_vars(\E raises \in BOOLEAN : update_performance_metrics(raises))
    /\ WF_vars(sleep_elapsed)

SpecCycleFair == InitCycle /\ [][NextCycleFair]_vars /\ FairScheduler

(***************************************************************************)
(* Claims about the feedback cycle (SpecCycle, SpecCycleFair).             *)
(***************************************************************************)
\* C15: in every cycle, each improvement the cycle has persisted has a
\* confidence of at least the activation threshold and was stored active with
\* its prompt addition; an improvement below the threshold is never among
\* the persisted ones.
C15_OnlyConfidentPersistedActive ==
    \A k \in DOMAIN scheduler.persisted :
        LET p == scheduler.persisted[k] IN
        /\ scheduler.improvements[p.index].confidence >= improvement_confidence_threshold
        /\ p.is_active
        /\ p.improved_prompt = scheduler.improvements[p.index].prompt_addition

\* A cycle with two improvements, the first below the threshold and skipped,
\* the second persisted.
C15_Witness ==
    /\ scheduler.pc = "metrics"
    /\ Len(scheduler.improvements) = 2
    /\ scheduler.improvements[1].confidence < improvement_confidence_threshold
    /\ Len(scheduler.persisted) = 1
    /\ scheduler.persisted[1].index = 2

\* C16: an exception in a step of a cycle never leaves
\* run_periodic_improvements, and after a failed cycle the scheduler starts
\* a new cycle.
C16_FailedCycleRetriedOnNextTick ==
    /\ [](~scheduler.escaped)
    /\ (scheduler.failed ~> scheduler.pc = "analyze")

\* A cycle that persisted an improvement and then failed in
\* update_performance_metrics; the scheduler sleeps until the next tick.
C16_Witness ==
    /\ scheduler.failed
    /\ scheduler.pc = "sleep_6h"
    /\ Len(scheduler.persisted) > 0

(***************************************************************************)
(* Feedback submissions one after the other (SpecSubmit).                  *)
(***************************************************************************)
InitSubmit ==
    /\ InitOrch
    /\ gw = GwIdle
    /\ InitExtIdle
    /\ db_pool \in BOOLEAN
    /\ prompt_improvements = <<>>
    /\ req = [p \in Requests |-> ReqIdle]
    /\ usage_updates = 0

NextSubmit ==
    \/ \E improvements \in BOOLEAN : submit_feedback(improvements)
    \/ \E raises \in BOOLEAN : submit_acquire(raises)
    \/ \E raises \in BOOLEAN : submit_insert(raises)
    \/ \E raises \in BOOLEAN : submit_analyze(raises)
    \/ \E raises, stored \in BOOLEAN : submit_commit(raises, stored)
    \/ \E raises \in BOOLEAN : submit_release(raises)
    \/ submit_respond

SpecSubmit == InitSubmit /\ [][NextSubmit]_vars

(***************************************************************************)
(* Claims about the feedback submission (SpecSubmit).                      *)
(***************************************************************************)
\* C21: when submit_feedback answers, an acknowledgment (status 200) carries
\* the id of a committed feedback record, and a request whose record is not
\* in the store is answered with a failure (status 500).
C21_AckOnlyWhenCommitted ==
    submit.pc = "done" =>
        /\ submit.status = 200 =>
              (submit.ack = submit.feedback_id /\ submit.ack \in feedback)
        /\ submit.feedback_id \notin feedback => submit.status = 500

\* A request whose record was inserted, whose transaction did not commit and
\* which was answered 500, after an earlier request was committed.
C21_Witness ==
    /\ submit.pc = "done"
    /\ submit.status = 500
    /\ submit.feedback_id > 0
    /\ submit.feedback_id \notin feedback
    /\ feedback # {}

(***************************************************************************)
(* Chat requests one after the other over two analysed documents of one    *)
(* retrieval chunk each, or over none when sklearn is not installed        *)
(* (SpecChat).                                                             *)
(***************************************************************************)
InitChat ==
    /\ InitOrch
    /\ gw = GwIdle
    /\ InitChunkerIdle
    /\ InitCycleIdle
    /\ InitSubmitIdle
    /\ InitChatIdle
    /\ InitBatchIdle
    /\ db_pool \in BOOLEAN
    /\ prompt_improvements = <<>>
    /\ req = [p \in Requests |-> ReqIdle]
    /\ usage_updates = 0
    /\ sklearn_installed \in BOOLEAN
    /\ DEFAULT_API_KEY = ""
    /\ sklearn_loaded = sklearn_installed
    /\ is_initialized = sklearn_installed
    /\ documents = MaxDocs
    /\ document_cache = 1..MaxDocs
    /\ chunks = IF sklearn_installed THEN [d \in 1..MaxDocs |-> Chunk(d, 0)] ELSE <<>>
    /\ chunk_metadata = chunks
    /\ vectorizer = IF sklearn_installed THEN Vectorizer(MaxDocs) ELSE NoVectorizer
    /\ document_vectors = IF sklearn_installed THEN Vectors(MaxDocs, MaxDocs) ELSE NoVectors
    /\ rag_result = NoQuery
    /\ http = HttpNone

NextChat ==
    \/ \E key \in ApiKeys, named \in 0..MaxSessions, document_ids \in DocumentIdSets :
         chat_with_documents(key, named, document_ids)
    \/ chat_retrieve
    \/ \E take \in 0..rag_k : chat_context(take)
    \/ \E conversation_context \in Contexts, raises \in BOOLEAN :
         chat_answer(conversation_context, raises)
    \/ \E raises \in BOOLEAN : chat_save(raises)
    \/ \E roll \in 1..randint_high : cleanup_middleware(roll)
    \/ chat_sent
    \/ \E session_id \in 1..MaxSessions, raises \in BOOLEAN :
         delete_chat_session(session_id, raises)

SpecChat == InitChat /\ [][NextChat]_vars

(***************************************************************************)
(* Claims about the chat (SpecChat).                                       *)
(***************************************************************************)
\* C22: from one step to the next the turns stored for a session do not get
\* fewer while the session stays stored, and a chat call that succeeds on a
\* stored session leaves the stored turns followed by the user turn and the
\* assistant turn.
C22_StoredTurnsOnlyGrow ==
    [][\A s \in 1..MaxSessions :
         (chat_history_cache[s] # NoSession /\ chat_history_cache'[s] # NoSession) =>
            /\ Len(chat_history_cache'[s]) >= Len(chat_history_cache[s])
            /\ (chat.pc = "answer" /\ chat.session_id = s /\ chat'.status # 500) =>
                  chat_history_cache'[s] = chat_history_cache[s] \o <<"user", "assistant">>]_vars

\* C26: when a chat request names document ids, every chunk retrieved into
\* its context was cut from one of the named documents.
C26_ContextFromNamedDocuments ==
    chat.rag_context.kind = "retrieved" =>
        chat.rag_context.docs \subseteq chat.document_ids

\* C28: the middleware hands the client the response of the handler, on
\* every request.
C28_MiddlewareReturnsHandlerResponse ==
    chat.pc = "sent" => chat.client = chat.status

(***************************************************************************)
(* Further claims about the feedback cycle (SpecCycle).                    *)
(***************************************************************************)
\* C24: a bucket that analyze_feedback_patterns fills holds groups of
\* frequency at least min_feedback_count only, so a bucket that is not
\* empty has a total frequency of at least min_feedback_count.
C24_OnlyFrequentGroupsContribute ==
    /\ scheduler.patterns.accuracy_issues > 0 =>
          scheduler.patterns.accuracy_issues >= min_feedback_count
    /\ scheduler.patterns.tone_corrections > 0 =>
          scheduler.patterns.tone_corrections >= min_feedback_count

\* TRUE of a step in which a step of the cycle fails: the INSERT of an
\* improvement that meets the threshold leaves the table as it was, or the
\* cycle is marked failed.
StepFails ==
    \/ /\ scheduler.pc = "apply"
       /\ scheduler.i <= Len(scheduler.improvements)
       /\ scheduler'.i = scheduler.i + 1
       /\ meets_threshold(scheduler.improvements[scheduler.i])
       /\ prompt_improvements' = prompt_improvements
    \/ ~scheduler.failed /\ scheduler'.failed

\* C25: a step of the cycle that fails ends the cycle: the scheduler goes to
\* sleep, and no later improvement or metrics step of that cycle runs.
C25_FailedStepEndsCycle ==
    [][StepFails => scheduler'.pc \in {"sleep_6h", "sleep_1h"}]_vars

\* C29: the store holds at most one active improvement per prompt-addition
\* text, after any number of cycles.
C29_OneActivePerText ==
    \A i, j \in 1..Len(prompt_improvements) :
        (/\ i # j
         /\ prompt_improvements[i].is_active
         /\ prompt_improvements[j].is_active) =>
            prompt_improvements[i].improved_prompt # prompt_improvements[j].improved_prompt

(***************************************************************************)
(* Batch requests one after the other, after start-up (SpecBatch).         *)
(***************************************************************************)
InitBatch ==
    /\ InitOrch
    /\ gw = GwIdle
    /\ InitStoreIdle
    /\ InitChunkerIdle
    /\ InitCycleIdle
    /\ InitLateIdle
    /\ sklearn_installed \in BOOLEAN
    /\ DEFAULT_API_KEY = ""
    /\ sklearn_loaded = sklearn_installed
    /\ is_initialized = sklearn_installed
    /\ vectorizer = IF sklearn_installed THEN Vectorizer(0) ELSE NoVectorizer
    /\ document_vectors = NoVectors
    /\ chunks = <<>>
    /\ chunk_metadata = <<>>
    /\ rag_result = NoQuery
    /\ document_cache = {}
    /\ documents = 0
    /\ http = HttpNone

Outcomes == {"extraction failed", "raised", "analysed"}

NextBatch ==
    \/ \E key \in ApiKeys, files \in FileLists, urls \in 0..MaxFiles :
         analyze_policy_files(key, files, urls)
    \/ \E outcome \in Outcomes, n \in 0..MaxRagChunks, fit \in {"ok", "ValueError"} :
         process_file(outcome, n, fit)
    \/ \E outcome \in Outcomes, n \in 0..MaxRagChunks, fit \in {"ok", "ValueError"} :
         process_url(outcome, n, fit)
    \/ batch_return
    \/ batch_respond

SpecBatch == InitBatch /\ [][NextBatch]_vars

(***************************************************************************)
(* Claims about the batch analysis (SpecBatch).                            *)
(***************************************************************************)
\* C30: in every batch response successful_analyses + failed_analyses is
\* total_files.
C30_CountsAddUp ==
    (batch.pc = "done" /\ batch.status = 200) =>
        batch.successful_analyses + batch.failed_analyses = batch.total_files

====
